---- MODULE Spec2Model ----
(***************************************************************************)
(* Writer1: the importer (DOCX/RTF paragraphs -> novel title + chapters),  *)
(* single calls of its classifier, patterns, compiler and DOCX decoder and *)
(* of editorToPlainText, and the database with the Word/RTF import handler.*)
(* Strings are sequences of one-character strings, so that the regular     *)
(* expressions, whitespace normalisation and length tests of importer.js   *)
(* are computed and not assumed.                                           *)
(***************************************************************************)
EXTENDS Integers, Sequences, FiniteSets, TLC

\* ------------------------------------------------------------------------
\* Bounds of the model
\* ------------------------------------------------------------------------
\* The longest paragraph sequence handed to splitFromParagraphs.
MaxParas == 3

\* ------------------------------------------------------------------------
\* Characters and strings
\* ------------------------------------------------------------------------
UpperSeq == <<"A","B","C","D","E","F","G","H","I","J","K","L","M",
              "N","O","P","Q","R","S","T","U","V","W","X","Y","Z">>
LowerSeq == <<"a","b","c","d","e","f","g","h","i","j","k","l","m",
              "n","o","p","q","r","s","t","u","v","w","x","y","z">>
UpperCs == {"A","B","C","D","E","F","G","H","I","J","K","L","M","N","O","P","Q",
            "R","S","T","U","V","W","X","Y","Z"}
LowerCs == {"a","b","c","d","e","f","g","h","i","j","k","l","m","n","o","p","q",
            "r","s","t","u","v","w","x","y","z"}
DigitCs == {"0","1","2","3","4","5","6","7","8","9"}
\* \s of the regular expressions, and what String.prototype.trim removes
WS == {" ", "\t", "\n", "\r"}
\* \w of the regular expressions (for \b)
WordCs == UpperCs \cup LowerCs \cup DigitCs \cup {"_"}
\* [ivxlcdm] under the i flag
RomanCs == {"i","v","x","l","c","d","m"}

SetMin(S) == CHOOSE x \in S : \A y \in S : x <= y
SetMax(S) == CHOOSE x \in S : \A y \in S : x >= y

\* String.prototype.toLowerCase / toUpperCase, on one character
LowerC(c) == IF c \in UpperCs THEN LowerSeq[CHOOSE k \in 1..26 : UpperSeq[k] = c] ELSE c
UpperC(c) == IF c \in LowerCs THEN UpperSeq[CHOOSE k \in 1..26 : LowerSeq[k] = c] ELSE c
toLowerCase(s) == [k \in 1..Len(s) |-> LowerC(s[k])]
toUpperCase(s) == [k \in 1..Len(s) |-> UpperC(s[k])]

\* The positions of s, ascending
Indices(s) == [k \in 1..Len(s) |-> k]

\* String.prototype.trim
trim(s) ==
  LET keep == SelectSeq(Indices(s), LAMBDA k : s[k] \notin WS)
  IN  IF keep = <<>> THEN <<>> ELSE SubSeq(s, keep[1], keep[Len(keep)])

\* s.replace(/\s+/g, " "): every maximal whitespace run becomes one space
CollapseWhitespace(s) ==
  LET first == SelectSeq(Indices(s), LAMBDA k : s[k] \notin WS \/ k = 1 \/ s[k-1] \notin WS)
  IN  [j \in 1..Len(first) |-> IF s[first[j]] \in WS THEN " " ELSE s[first[j]]]

clean(str) == trim(CollapseWhitespace(str))

\* String.prototype.includes, and an unanchored search for a literal
Includes(s, sub) == \E a \in 1..(Len(s) - Len(sub) + 1) : SubSeq(s, a, a + Len(sub) - 1) = sub

\* s begins with the (lower-case) word w, case-insensitively
StartsWithCI(s, w) ==
  /\ Len(s) >= Len(w)
  /\ toLowerCase(SubSeq(s, 1, Len(w))) = w

\* \b after position p of s, where s[p] is a word character
BoundaryAfter(s, p) == p = Len(s) \/ s[p+1] \notin WordCs

\* Number words of the patterns
OneToTen == { <<"o","n","e">>, <<"t","w","o">>, <<"t","h","r","e","e">>,
              <<"f","o","u","r">>, <<"f","i","v","e">>, <<"s","i","x">>,
              <<"s","e","v","e","n">>, <<"e","i","g","h","t">>,
              <<"n","i","n","e">>, <<"t","e","n">> }
OneToTwelve == OneToTen \cup { <<"e","l","e","v","e","n">>, <<"t","w","e","l","v","e">> }

\* ([0-9]+|[ivxlcdm]+|one|two|...) matched against the whole token, i flag
NumberToken(tok, words) ==
  LET lo == toLowerCase(tok)
  IN  /\ Len(tok) >= 1
      /\ \/ \A k \in 1..Len(lo) : lo[k] \in DigitCs
         \/ \A k \in 1..Len(lo) : lo[k] \in RomanCs
         \/ lo \in words

\* ^(kw)\s+(number token)\b, for some keyword kw of kws
KeywordNumber(t, kws, words) ==
  \E kw \in kws :
    /\ StartsWithCI(t, kw)
    /\ \E w \in 1..(Len(t) - Len(kw)) :
         /\ \A k \in (Len(kw)+1)..(Len(kw)+w) : t[k] \in WS
         /\ \E n \in 1..(Len(t) - Len(kw) - w) :
              /\ NumberToken(SubSeq(t, Len(kw)+w+1, Len(kw)+w+n), words)
              /\ BoundaryAfter(t, Len(kw)+w+n)

\* (chapter|chap\.?)
ChapterKws == { <<"c","h","a","p","t","e","r">>, <<"c","h","a","p",".">>, <<"c","h","a","p">> }
PartKws == { <<"p","a","r","t">> }
FrontKws == { <<"p","r","o","l","o","g","u","e">>, <<"e","p","i","l","o","g","u","e">>,
              <<"p","r","e","f","a","c","e">>, <<"f","o","r","e","w","o","r","d">>,
              <<"a","f","t","e","r","w","o","r","d">> }

\* CHAPTER_RE with the number words of PART_RE
CHAPTER_RE_ToTen(t) == KeywordNumber(t, ChapterKws, OneToTen)

CHAPTER_RE(t) == KeywordNumber(t, ChapterKws, OneToTwelve)
PART_RE(t) == KeywordNumber(t, PartKws, OneToTen)
FRONT_RE(t) == \E kw \in FrontKws : StartsWithCI(t, kw) /\ BoundaryAfter(t, Len(kw))

\* The three patterns together, as tested on titles
StructuralPattern(t) == CHAPTER_RE(t) \/ PART_RE(t) \/ FRONT_RE(t)

AllCapsMaxLen == 44
AllCapsMinLetters == 6

\* isAllCapsShort rejecting the length 44 itself
isAllCapsShort_Under44(s) ==
  LET t == clean(s)
      letters == Cardinality({k \in 1..Len(t) : t[k] \in UpperCs})
  IN  /\ t # <<>>
      /\ Len(t) < AllCapsMaxLen
      /\ letters >= AllCapsMinLetters
      /\ t = toUpperCase(t)

isAllCapsShort(s) ==
  LET t == clean(s)
      letters == Cardinality({k \in 1..Len(t) : t[k] \in UpperCs})
  IN  /\ t # <<>>
      /\ Len(t) <= AllCapsMaxLen
      /\ letters >= AllCapsMinLetters
      /\ t = toUpperCase(t)

sHeading == <<"h","e","a","d","i","n","g">>
sTitle == <<"t","i","t","l","e">>

\* /heading\s*(d)/.test(s) for a digit d of ds: an unanchored search
HeadingStyleRE(s, ds) ==
  \E a \in 1..Len(s) :
    /\ a + 6 <= Len(s)
    /\ SubSeq(s, a, a + 6) = sHeading
    /\ \E b \in (a+7)..Len(s) :
         /\ \A k \in (a+7)..(b-1) : s[k] \in WS
         /\ s[b] \in ds

\* isHeadingLike testing the style before the blank-text exit
isHeadingLike_StyleFirst(text, style) ==
  LET t == clean(text)
      s == toLowerCase(style)
      isStyleHeading == HeadingStyleRE(s, {"1","2"}) \/ s = sTitle
  IN  \/ isStyleHeading
      \/ (t # <<>> /\ (CHAPTER_RE(t) \/ PART_RE(t) \/ FRONT_RE(t) \/ isAllCapsShort(t)))

isHeadingLike(text, style) ==
  LET t == clean(text)
      s == toLowerCase(style)
      isStyleHeading == HeadingStyleRE(s, {"1","2"}) \/ s = sTitle
  IN  /\ t # <<>>
      /\ (isStyleHeading \/ CHAPTER_RE(t) \/ PART_RE(t) \/ FRONT_RE(t) \/ isAllCapsShort(t))

sUntitledNovel == <<"U","n","t","i","t","l","e","d"," ","N","o","v","e","l">>
sImported == <<"I","m","p","o","r","t","e","d">>

\* name.replace(/\..+$/, ""): everything from the first dot on goes
StripExtension_FromFirstDot(name) ==
  LET dots == {k \in 1..Len(name) : name[k] = "."}
  IN  IF dots # {} /\ SetMin(dots) < Len(name)
      THEN SubSeq(name, 1, SetMin(dots) - 1)
      ELSE name

\* name.replace(/\.[^.]+$/, ""): drop a final ".ext" (ext: one or more non-dots)
StripExtension(name) ==
  LET dots == {k \in 1..Len(name) : name[k] = "."}
  IN  IF dots # {} /\ SetMax(dots) < Len(name)
      THEN SubSeq(name, 1, SetMax(dots) - 1)
      ELSE name

filenameToTitle(name) ==
  LET base == StripExtension(IF name = <<>> THEN sUntitledNovel ELSE name)
  IN  IF clean(base) # <<>> THEN clean(base) ELSE sUntitledNovel

\* ------------------------------------------------------------------------
\* Paragraph-to-document compiler
\* ------------------------------------------------------------------------
\* text.replace(/\r\n/g, "\n").replace(/\r/g, "\n"): the "\n" of a "\r\n" goes,
\* every "\r" becomes "\n"
NormalizeNewlines(s) ==
  LET kept == SelectSeq(Indices(s), LAMBDA k : ~(s[k] = "\n" /\ k > 1 /\ s[k-1] = "\r"))
  IN  [j \in 1..Len(kept) |-> IF s[kept[j]] = "\r" THEN "\n" ELSE s[kept[j]]]

\* s.split(/\n{2,}/): the separators are the maximal runs of two or more
\* newlines; the pieces between consecutive separators, empty ones included
SplitBlankLines(s) ==
  LET InSep(k) == /\ s[k] = "\n"
                  /\ \/ (k > 1 /\ s[k-1] = "\n")
                     \/ (k < Len(s) /\ s[k+1] = "\n")
      starts == SelectSeq(Indices(s), LAMBDA k : InSep(k) /\ (k = 1 \/ ~InSep(k-1)))
      ends == SelectSeq(Indices(s), LAMBDA k : InSep(k) /\ (k = Len(s) \/ ~InSep(k+1)))
  IN  [j \in 1..(Len(starts) + 1) |->
         SubSeq(s, IF j = 1 THEN 1 ELSE ends[j-1] + 1,
                   IF j = Len(starts) + 1 THEN Len(s) ELSE starts[j] - 1)]

\* s.split("\n"): every newline separates, empty lines included
SplitLines(s) ==
  LET nl == SelectSeq(Indices(s), LAMBDA k : s[k] = "\n")
  IN  [j \in 1..(Len(nl) + 1) |->
         SubSeq(s, IF j = 1 THEN 1 ELSE nl[j-1] + 1,
                   IF j = Len(nl) + 1 THEN Len(s) ELSE nl[j] - 1)]

TextNode(t) == [type |-> "text", text |-> t]
HardBreak == [type |-> "hardBreak"]
EmptyParagraph == [type |-> "paragraph"]

\* The loop of paragraphToTiptap over lines k..Len(lines)
RECURSIVE LineNodes(_, _)
LineNodes(lines, k) ==
  IF k > Len(lines) THEN <<>>
  ELSE (IF lines[k] # <<>> THEN <<TextNode(lines[k])>> ELSE <<>>)
       \o (IF k < Len(lines) THEN <<HardBreak>> ELSE <<>>)
       \o LineNodes(lines, k+1)

\* paragraphToTiptap with a hardBreak after every line, the last one included
paragraphToTiptap_BreakAfterEach(par) ==
  LET lines == SplitLines(par)
      content == LineNodes(lines, 1) \o <<HardBreak>>
  IN  [type |-> "paragraph", content |-> content]

paragraphToTiptap(par) ==
  LET content == LineNodes(SplitLines(par), 1)
  IN  [type |-> "paragraph",
       content |-> IF content # <<>> THEN content ELSE <<TextNode(<<>>)>>]

\* textToDoc without the empty-paragraph default
textToDoc_NoBlocks(text) ==
  LET raw == NormalizeNewlines(text)
      pieces == SplitBlankLines(raw)
      trimmed == [k \in 1..Len(pieces) |-> trim(pieces[k])]
      blocks == SelectSeq(trimmed, LAMBDA b : b # <<>>)
  IN  [type |-> "doc", content |-> [k \in 1..Len(blocks) |-> paragraphToTiptap(blocks[k])]]

textToDoc(text) ==
  LET raw == NormalizeNewlines(text)
      pieces == SplitBlankLines(raw)
      trimmed == [k \in 1..Len(pieces) |-> trim(pieces[k])]
      blocks == SelectSeq(trimmed, LAMBDA b : b # <<>>)
  IN  [type |-> "doc",
       content |-> IF blocks # <<>>
                   THEN [k \in 1..Len(blocks) |-> paragraphToTiptap(blocks[k])]
                   ELSE <<EmptyParagraph>>]


\* ------------------------------------------------------------------------
\* editor.js: the plain text of a document
\* ------------------------------------------------------------------------
\* s.replace(/\n{3,}/g, "\n\n"): of a run of newlines the first two stay
CollapseBlankLines(s) ==
  LET kept == SelectSeq(Indices(s), LAMBDA k :
                  ~(s[k] = "\n" /\ k > 2 /\ s[k-1] = "\n" /\ s[k-2] = "\n"))
  IN  [j \in 1..Len(kept) |-> s[kept[j]]]

\* walk(node) of editorToPlainText, as the concatenation of what it pushes
RECURSIVE walk(_)
RECURSIVE walkChildren(_, _)
walk(node) ==
  IF node.type = "text"
  THEN (IF "text" \in DOMAIN node THEN node.text ELSE <<>>)
  ELSE (IF node.type = "paragraph" THEN <<"\n">> ELSE <<>>)
       \o (IF node.type = "hardBreak" THEN <<"\n">> ELSE <<>>)
       \o walkChildren(IF "content" \in DOMAIN node THEN node.content ELSE <<>>, 1)
       \o (IF node.type \in {"heading", "blockquote"} THEN <<"\n">> ELSE <<>>)
       \o (IF node.type = "listItem" THEN <<"\n">> ELSE <<>>)

\* for (const child of content) walk(child), from child k on
walkChildren(content, k) ==
  IF k > Len(content) THEN <<>> ELSE walk(content[k]) \o walkChildren(content, k + 1)

\* editorToPlainText without the final trim
editorToPlainText_NoTrim(jsonDoc) == CollapseBlankLines(walk(jsonDoc))

editorToPlainText(jsonDoc) == trim(CollapseBlankLines(walk(jsonDoc)))

\* ------------------------------------------------------------------------
\* export.js: what exportDOCX and exportPDF emit for the chapters
\* ------------------------------------------------------------------------
sUntitledChapter == <<"U","n","t","i","t","l","e","d"," ","C","h","a","p","t","e","r">>

\* editorToPlainText(ch.content).split(/\n\n+/).filter(Boolean)
BodyParagraphs(content) ==
  SelectSeq(SplitBlankLines(editorToPlainText(content)), LAMBDA p : p # <<>>)

\* The loop body of both exporters for one chapter: the optional heading, one element per
\* piece of the plain text, and the closing element (text "" in DOCX, " " in PDF)
ExportChapter(ch, includeHeadings, closing) ==
  LET body == BodyParagraphs(ch.content)
  IN  (IF includeHeadings
       THEN <<[kind |-> "heading", text |-> IF ch.title # <<>> THEN ch.title ELSE sUntitledChapter]>>
       ELSE <<>>)
      \o [k \in 1..Len(body) |-> [kind |-> "body", text |-> body[k]]]
      \o <<[kind |-> "closing", text |-> closing]>>

\* for (const ch of chapters) ..., from chapter k on
RECURSIVE ExportChapters(_, _, _, _)
ExportChapters(chs, k, includeHeadings, closing) ==
  IF k > Len(chs) THEN <<>>
  ELSE ExportChapter(chs[k], includeHeadings, closing)
       \o ExportChapters(chs, k + 1, includeHeadings, closing)

\* docChildren of exportDOCX, content of exportPDF
exportDOCX(chs, includeHeadings) == ExportChapters(chs, 1, includeHeadings, <<>>)
exportPDF(chs, includeHeadings) == ExportChapters(chs, 1, includeHeadings, <<" ">>)

\* ------------------------------------------------------------------------
\* The DOCX decoder: text and style of each w:p
\* ------------------------------------------------------------------------
\* s.replace(/\s+\n/g, "\n"): of a whitespace run, what precedes its last newline goes
StripBeforeNewline(s) ==
  LET kept == SelectSeq(Indices(s), LAMBDA k :
                  ~(s[k] \in WS /\ \E n \in (k+1)..Len(s) :
                                     s[n] = "\n" /\ \A j \in k..n : s[j] \in WS))
  IN  [j \in 1..Len(kept) |-> s[kept[j]]]

\* paragraphText(p), from the joined w:t / w:tab / w:br pieces of the paragraph
paragraphText(joined) == trim(StripBeforeNewline(joined))

\* let styleName = style; then the three tests in turn, the last match winning
StyleName(style) ==
  IF Includes(toLowerCase(style), sTitle) THEN <<"T","i","t","l","e">>
  ELSE IF Includes(toLowerCase(style), sHeading \o <<"2">>) THEN <<"H","e","a","d","i","n","g"," ","2">>
  ELSE IF Includes(toLowerCase(style), sHeading \o <<"1">>) THEN <<"H","e","a","d","i","n","g"," ","1">>
  ELSE style

\* The loop of parseDOCX over the w:p elements, each given as [style, joined]
parseDOCX(ps) ==
  LET kept == SelectSeq(ps, LAMBDA p : clean(paragraphText(p.joined)) # <<>>)
  IN  [k \in 1..Len(kept) |->
         [text |-> paragraphText(kept[k].joined), style |-> StyleName(kept[k].style)]]

\* ------------------------------------------------------------------------
\* Segmentation: splitFromParagraphs
\* ------------------------------------------------------------------------
TitleMaxLen == 80
SubtitleMaxLen == 60

sChapterSpace == <<"C","h","a","p","t","e","r"," ">>
sColonSpace == <<":"," ">>
sBlankLine == <<"\n","\n">>

\* Decimal digits of a natural number (template literal ${n})
RECURSIVE NatToStr(_)
NatToStr(n) ==
  IF n < 10 THEN <<CHOOSE d \in DigitCs : d = ToString(n)>>
  ELSE NatToStr(n \div 10) \o NatToStr(n % 10)

\* `Chapter ${n}`
ChapterLabel(n) == sChapterSpace \o NatToStr(n)

\* Array.prototype.join
RECURSIVE Join(_, _)
Join(strs, sep) ==
  IF strs = <<>> THEN <<>>
  ELSE IF Len(strs) = 1 THEN strs[1]
  ELSE strs[1] \o sep \o Join(Tail(strs), sep)

\* The stream without the filter
FilterParas_KeepAll(paragraphs) == paragraphs

\* .filter(p => clean(p.text).length)
FilterParas(paragraphs) == SelectSeq(paragraphs, LAMBDA p : Len(clean(p.text)) # 0)

\* Title detection without the length test
TitleDetected_AnyLength(ps) ==
  /\ ps # <<>>
  /\ LET t == clean(ps[1].text)
         s == toLowerCase(ps[1].style)
     IN  /\ t # <<>>
         /\ ~CHAPTER_RE(t) /\ ~PART_RE(t) /\ ~FRONT_RE(t)
         /\ (s = sTitle \/ HeadingStyleRE(s, {"1"}))

\* The condition of title detection on the filtered stream
TitleDetected(ps) ==
  /\ ps # <<>>
  /\ LET t == clean(ps[1].text)
         s == toLowerCase(ps[1].style)
     IN  /\ t # <<>>
         /\ Len(t) <= TitleMaxLen
         /\ ~CHAPTER_RE(t) /\ ~PART_RE(t) /\ ~FRONT_RE(t)
         /\ (s = sTitle \/ HeadingStyleRE(s, {"1"}))

\* while (paras.length && !clean(paras[0].text)) paras.shift()
RECURSIVE DropLeadingBlank(_)
DropLeadingBlank(ps) ==
  IF ps # <<>> /\ clean(ps[1].text) = <<>> THEN DropLeadingBlank(Tail(ps)) ELSE ps

\* paras after title detection
AfterTitle(ps) == IF TitleDetected(ps) THEN DropLeadingBlank(Tail(ps)) ELSE ps

\* novelTitle after title detection
NovelTitleOf(ps, fb) ==
  IF TitleDetected(ps) THEN clean(ps[1].text)
  ELSE IF fb # <<>> THEN fb ELSE sUntitledNovel

\* The title without the label default
TitleOrLabel_NoFallback(title, n) == clean(title)

\* clean(title) || `Chapter ${n}`
TitleOrLabel(title, n) == IF clean(title) # <<>> THEN clean(title) ELSE ChapterLabel(n)

\* pushCurrent that keeps only drafts with a body
pushCurrent_DropEmptyBody(chs, cur) ==
  IF cur = <<>> \/ cur[1].body = <<>> THEN chs
  ELSE Append(chs, [title |-> TitleOrLabel(cur[1].title, Len(chs) + 1),
                    doc |-> textToDoc(trim(Join(cur[1].body, sBlankLine)))])

\* pushCurrent: cur is <<>> (null) or <<draft>>
pushCurrent(chs, cur) ==
  IF cur = <<>> THEN chs
  ELSE Append(chs, [title |-> TitleOrLabel(cur[1].title, Len(chs) + 1),
                    doc |-> textToDoc(trim(Join(cur[1].body, sBlankLine)))])

\* A fresh draft for a heading paragraph
NewDraft(t) == [title |-> t, body |-> <<>>]

\* The draft opened for text that precedes every heading
SyntheticDraft(chs) == [title |-> ChapterLabel(Len(chs) + 1), body |-> <<>>]

\* The smart-subtitle condition without the test of the draft's title
SubtitleApplies_AnyTitle(d, t) ==
  LET nextT == clean(t)
  IN  /\ Len(d.body) = 0
      /\ Len(nextT) # 0
      /\ Len(nextT) <= SubtitleMaxLen
      /\ nextT[Len(nextT)] \notin {".", "!", "?"}

\* The smart-subtitle condition, for draft d and paragraph text t
SubtitleApplies(d, t) ==
  LET curT == clean(d.title)
      nextT == clean(t)
  IN  /\ Len(d.body) = 0
      /\ Len(nextT) # 0
      /\ Len(nextT) <= SubtitleMaxLen
      /\ nextT[Len(nextT)] \notin {".", "!", "?"}
      /\ (CHAPTER_RE(curT) \/ PART_RE(curT) \/ FRONT_RE(curT))

MergeSubtitle(d, t) == [d EXCEPT !.title = clean(d.title) \o sColonSpace \o clean(t)]
\* body.unshift in place of body.push
AppendBody_AtFront(d, t) == [d EXCEPT !.body = <<t>> \o d.body]
\* current.body holding the last paragraph only
AppendBody_KeepLast(d, t) == [d EXCEPT !.body = <<t>>]
AppendBody(d, t) == [d EXCEPT !.body = Append(d.body, t)]

\* No fallback chapter
FallbackChapters_Skipped(chs, ps) == chs

\* The no-headings fallback
FallbackChapters(chs, ps) ==
  IF chs = <<>>
  THEN <<[title |-> ChapterLabel(1),
          doc |-> textToDoc(Join([k \in 1..Len(ps) |-> ps[k].text], sBlankLine))]>>
  ELSE chs

\* chapters.map((c, i) => ({title: clean(c.title) || `Chapter ${i+1}`, doc: c.doc || ...}))
Cleaned(chs) == [k \in 1..Len(chs) |-> [title |-> TitleOrLabel(chs[k].title, k), doc |-> chs[k].doc]]

\* The main loop from paragraph k on, as a fold
RECURSIVE LoopFrom(_, _, _, _)
LoopFrom(ps, k, chs, cur) ==
  IF k > Len(ps) THEN pushCurrent(chs, cur)
  ELSE IF isHeadingLike(ps[k].text, ps[k].style)
       THEN LoopFrom(ps, k+1, pushCurrent(chs, cur), <<NewDraft(ps[k].text)>>)
       ELSE LET d == IF cur = <<>> THEN SyntheticDraft(chs) ELSE cur[1]
            IN  IF SubtitleApplies(d, ps[k].text)
                THEN LoopFrom(ps, k+1, chs, <<MergeSubtitle(d, ps[k].text)>>)
                ELSE LoopFrom(ps, k+1, chs, <<AppendBody(d, ps[k].text)>>)

\* The whole function
splitFromParagraphs(paragraphs, fb) ==
  LET filtered == FilterParas(paragraphs)
      ps == AfterTitle(filtered)
  IN  [novelTitle |-> NovelTitleOf(filtered, fb),
       chapters |-> Cleaned(FallbackChapters(LoopFrom(ps, 1, <<>>, <<>>), ps))]

\* ------------------------------------------------------------------------
\* Inputs: the paragraphs a decoder hands over, and the imported file's name
\* ------------------------------------------------------------------------
Rep(c, n) == [k \in 1..n |-> c]

tSpaces == <<" ","\n">>
tMyNovel == <<"M","y"," ","N","o","v","e","l">>
tChapter1 == <<"C","h","a","p","t","e","r"," ","1">>
tArrival == <<"T","h","e"," ","A","r","r","i","v","a","l">>
tDawn == <<"I","t"," ","w","a","s"," ","d","a","w","n",".">>
tTheEnd == <<"T","H","E"," ","E","N","D">>
tPartTwo == <<"P","a","r","t"," "," ","t","w","o">>
tIntro == <<"I","n","t","r","o">>

stNone == <<>>
stTitle == <<"T","i","t","l","e">>
stHeading1 == <<"H","e","a","d","i","n","g"," ","1">>
stHeading1Id == <<"H","e","a","d","i","n","g","1">>
stHeading2 == <<"H","e","a","d","i","n","g"," ","2">>
stNormal == <<"N","o","r","m","a","l">>

Para(t, s) == [text |-> t, style |-> s]

\* A blank paragraph carrying a style, title pages by both styles, headings by
\* pattern, by style and by capitals, short and long plain lines, a sentence.
ParaPool ==
  { Para(tSpaces, stTitle),
    Para(tMyNovel, stTitle),
    Para(tIntro, stHeading1),
    Para(Rep("y", TitleMaxLen + 1), stHeading1Id),
    Para(tPartTwo, stHeading1),
    Para(tTheEnd, stHeading2),
    Para(tChapter1, stNone),
    Para(tArrival, stNone),
    Para(tDawn, stNone),
    Para(Rep("x", SubtitleMaxLen + 1), stNormal) }

\* parseRTF: blocks that are non-empty after trim, every style ""
RtfPool == {p \in ParaPool : p.style = <<>> /\ trim(p.text) # <<>>}

RECURSIVE SeqsUpTo(_, _)
SeqsUpTo(S, n) ==
  IF n = 0 THEN {<<>>}
  ELSE LET shorter == SeqsUpTo(S, n - 1)
       IN  shorter \cup {Append(q, x) : q \in shorter, x \in S}

fManuscript == <<"m","y","_","m","a","n","u","s","c","r","i","p","t",".","v","2",".","d","o","c","x">>
fDotRtf == <<".","r","t","f">>
fNotesTxt == <<"n","o","t","e","s",".","t","x","t">>
sRtf == <<"r","t","f">>
sDocx == <<"d","o","c","x">>
sOfficeDocument == <<"o","f","f","i","c","e","d","o","c","u","m","e","n","t">>

\* file.type: none, RTF, plain text
mtNone == <<>>
mtRtf == <<"a","p","p","l","i","c","a","t","i","o","n","/","r","t","f">>
mtPlain == <<"t","e","x","t","/","p","l","a","i","n">>

File(n, t) == [name |-> n, type |-> t]

\* A DOCX by extension, an RTF by extension, an RTF by media type only, and a
\* file that is neither by extension nor by media type
Files == { File(fManuscript, mtNone), File(fDotRtf, mtNone),
           File(fNotesTxt, mtRtf), File(fNotesTxt, mtPlain) }
FileNames == {f.name : f \in Files}

\* (name.split(".").pop() || "").toLowerCase()
FileExt(name) ==
  LET dots == {k \in 1..Len(name) : name[k] = "."}
  IN  toLowerCase(IF dots = {} THEN name ELSE SubSeq(name, SetMax(dots) + 1, Len(name)))

\* parseImportFile without the final else: an unrecognised file goes to parseDOCX
DecoderFor_DefaultDocx(name, type) ==
  IF FileExt(name) = sRtf \/ Includes(type, sRtf) THEN "parseRTF" ELSE "parseDOCX"

\* The if / else-if / else of parseImportFile: the decoder called, or "throw"
DecoderFor(name, type) ==
  IF FileExt(name) = sRtf \/ Includes(type, sRtf) THEN "parseRTF"
  ELSE IF FileExt(name) = sDocx \/ Includes(type, sOfficeDocument) THEN "parseDOCX"
  ELSE "throw"

\* What the decoder chosen by parseImportFile can hand over
DecodedParagraphs(name, type) ==
  IF DecoderFor(name, type) = "parseRTF" THEN SeqsUpTo(RtfPool, MaxParas)
  ELSE IF DecoderFor(name, type) = "parseDOCX" THEN SeqsUpTo(ParaPool, MaxParas)
  ELSE {<<>>}

\* ------------------------------------------------------------------------
\* The import as a process
\* ------------------------------------------------------------------------
VARIABLES
  fileName,       \* file.name of the imported file
  fileType,       \* file.type, its declared media type
  decoder,        \* "none" until parseImportFile called a decoder, then its name
  paragraphs,     \* the decoder's output, the argument of splitFromParagraphs
  fallbackTitle,  \* <<>> until parseImportFile computed it, then <<title>>
  paras,          \* the filtered stream
  novelTitle,
  chapters,
  current,        \* <<>> (null) or <<draft>>
  idx,            \* position of the for-of loop in paras
  result,         \* <<>> until the function returned, then <<ImportResult>>
  pc

\* One call of a function of importer.js or editor.js
VARIABLES
  callee,         \* the function called, "none" when no call is modelled
  args,           \* its argument
  returned,       \* <<>> until it returned, then <<value>>
  plainText       \* <<>> until editorToPlainText ran on the returned document, then <<string>>

\* The database (storage.js) and the Word/RTF import handler of app.js
VARIABLES
  dbNovels,       \* db.novels: novel id -> record
  dbChapters,     \* db.chapters: chapter id -> record
  uuid,           \* the identifiers crypto.randomUUID has handed out so far
  importer,       \* the replacement routine in use, "none" when no import is modelled
  parsed,         \* <<>> until parseImportFile returned, then <<ImportResult>>
  toDelete,       \* the chapters of getNovel still to be deleted
  created,        \* <<>> or <<id>>: the chapter createChapter returned, not yet updated
  newIds,
  before,         \* the database when the handler started
  ipc

\* The page (app.js): state, editor, title field, the timer of writeChapterDebounced and the
\* handlers that are waiting for a database request
VARIABLES
  stateNovelId,     \* state.novelId
  stateChapters,    \* state.chapters: the records { id, title, content } in list order
  activeChapterId,  \* state.activeChapterId, 0 for null
  editorDoc,        \* the document the editor shows
  chapterTitle,     \* the value of the #chapterTitle field
  writeTimer,       \* <<>> or <<args>>: the timer of writeChapterDebounced and its arguments
  tasks,            \* the handlers in flight, each at its next database request
  events            \* the user events so far

\* The service worker (sw.js), its caches, and setupSW of the page
VARIABLES
  pageSearch,       \* location.search of the page, as its name/value pairs
  swSupported,      \* "serviceWorker" in navigator
  registrations,    \* the service-worker registrations of the origin, by script
  setupPc,          \* where setupSW is
  regs,             \* what getRegistrations returned to setupSW
  swState,          \* "none", "installed", "activating" or "activated"
  keys,             \* what caches.keys() returned to the activate listener
  cacheStorage,     \* caches: cache name -> (request key -> response)
  online,           \* the network is reachable
  fetching,         \* the fetch events whose respondWith promise is pending
  pendingPuts,      \* the cache.put calls that have not settled
  lastResponse,     \* <<>> or <<how the last request was answered>>
  requests          \* the requests the page has made so far

\* Calls of storage.js made one after the other
VARIABLES
  storageCall,      \* <<>> or <<the last call: its name, argument, result, the database before>>
  backupFile,       \* <<>> or <<the last backup exported, with the database it was taken from>>
  storageCalls      \* the calls so far

importVars == <<fileName, fileType, decoder, paragraphs, fallbackTitle, paras, novelTitle,
                chapters, current, idx, result, pc>>
callVars == <<callee, args, returned, plainText>>
storeVars == <<dbNovels, dbChapters, uuid, importer, parsed, toDelete, created, newIds, before, ipc>>
appVars == <<stateNovelId, stateChapters, activeChapterId, editorDoc, chapterTitle, writeTimer,
             tasks, events>>
dbVars == <<storageCall, backupFile, storageCalls>>
swVars == <<pageSearch, swSupported, registrations, setupPc, regs, swState, keys, cacheStorage,
            online, fetching, pendingPuts, lastResponse, requests>>
vars == <<importVars, callVars, storeVars, appVars, swVars, dbVars>>

\* No function call is modelled
NoCall == callee = "none" /\ args = <<>> /\ returned = <<>> /\ plainText = <<>>

\* No database and no handler is modelled
NoStore ==
  /\ dbNovels = <<>> /\ dbChapters = <<>> /\ uuid = 0 /\ importer = "none"
  /\ parsed = <<>> /\ toDelete = <<>> /\ created = <<>> /\ newIds = <<>>
  /\ before = <<>> /\ ipc = "none"

\* No page is modelled
NoApp ==
  /\ stateNovelId = "none" /\ stateChapters = <<>> /\ activeChapterId = 0 /\ editorDoc = <<>>
  /\ chapterTitle = <<>> /\ writeTimer = <<>> /\ tasks = <<>> /\ events = 0

\* No service worker is modelled
NoSw ==
  /\ pageSearch = <<>> /\ swSupported = FALSE /\ registrations = {} /\ setupPc = "none"
  /\ regs = {} /\ swState = "none" /\ keys = <<>> /\ cacheStorage = <<>> /\ online = FALSE
  /\ fetching = <<>> /\ pendingPuts = <<>> /\ lastResponse = <<>> /\ requests = 0

\* No sequence of storage calls is modelled
NoDb == storageCall = <<>> /\ backupFile = <<>> /\ storageCalls = 0

Init ==
  /\ \E f \in Files : fileName = f.name /\ fileType = f.type
  /\ decoder = "none"
  /\ paragraphs \in DecodedParagraphs(fileName, fileType)
  /\ fallbackTitle = <<>>
  /\ paras = <<>>
  /\ novelTitle = <<>>
  /\ chapters = <<>>
  /\ current = <<>>
  /\ idx = 1
  /\ result = <<>>
  /\ pc = "parseImportFile"
  /\ NoCall /\ NoStore /\ NoApp /\ NoSw /\ NoDb

\* parseImportFile: name = file.name || "Imported"; fallbackTitle = filenameToTitle(name);
\* then the decoder by extension or media type, or the throw
ParseImportFile ==
  /\ pc = "parseImportFile"
  /\ LET name == IF fileName # <<>> THEN fileName ELSE sImported
     IN  /\ fallbackTitle' = <<filenameToTitle(name)>>
         /\ IF DecoderFor(name, fileType) = "throw"
            THEN decoder' = "none" /\ pc' = "error"
            ELSE decoder' = DecoderFor(name, fileType) /\ pc' = "filter"
  /\ UNCHANGED <<fileName, fileType, paragraphs, paras, novelTitle, chapters, current, idx, result>>
  /\ UNCHANGED <<callVars, storeVars, appVars, swVars, dbVars>>

\* splitFromParagraphs, entry: the filter and the default novel title
Filter ==
  /\ pc = "filter"
  /\ paras' = FilterParas(paragraphs)
  /\ novelTitle' = (IF fallbackTitle[1] # <<>> THEN fallbackTitle[1] ELSE sUntitledNovel)
  /\ pc' = "title"
  /\ UNCHANGED <<fileName, fileType, decoder, paragraphs, fallbackTitle, chapters, current, idx, result>>
  /\ UNCHANGED <<callVars, storeVars, appVars, swVars, dbVars>>

\* Title detection
DetectTitle ==
  /\ pc = "title"
  /\ paras' = AfterTitle(paras)
  /\ novelTitle' = (IF TitleDetected(paras) THEN clean(paras[1].text) ELSE novelTitle)
  /\ pc' = "loop"
  /\ UNCHANGED <<fileName, fileType, decoder, paragraphs, fallbackTitle, chapters, current, idx, result>>
  /\ UNCHANGED <<callVars, storeVars, appVars, swVars, dbVars>>

\* Loop body, heading branch: pushCurrent, then a new draft
StartChapter ==
  /\ pc = "loop" /\ idx <= Len(paras)
  /\ isHeadingLike(paras[idx].text, paras[idx].style) = TRUE
  /\ chapters' = pushCurrent(chapters, current)
  /\ current' = <<NewDraft(paras[idx].text)>>
  /\ idx' = idx + 1
  /\ UNCHANGED <<fileName, fileType, decoder, paragraphs, fallbackTitle, paras, novelTitle, result, pc>>
  /\ UNCHANGED <<callVars, storeVars, appVars, swVars, dbVars>>

\* Loop body, else branch, first statement: open the synthetic draft
OpenDraft ==
  /\ pc = "loop" /\ idx <= Len(paras)
  /\ current = <<>>
  /\ isHeadingLike(paras[idx].text, paras[idx].style) = FALSE
  /\ current' = <<SyntheticDraft(chapters)>>
  /\ UNCHANGED <<fileName, fileType, decoder, paragraphs, fallbackTitle, paras, novelTitle, chapters, idx, result, pc>>
  /\ UNCHANGED <<callVars, storeVars, appVars, swVars, dbVars>>

\* Loop body, else branch: the paragraph becomes a subtitle
Subtitle ==
  /\ pc = "loop" /\ idx <= Len(paras)
  /\ current # <<>>
  /\ isHeadingLike(paras[idx].text, paras[idx].style) = FALSE
  /\ SubtitleApplies(current[1], paras[idx].text) = TRUE
  /\ current' = <<MergeSubtitle(current[1], paras[idx].text)>>
  /\ idx' = idx + 1
  /\ UNCHANGED <<fileName, fileType, decoder, paragraphs, fallbackTitle, paras, novelTitle, chapters, result, pc>>
  /\ UNCHANGED <<callVars, storeVars, appVars, swVars, dbVars>>

\* Loop body, else branch: the paragraph goes to the body
Body ==
  /\ pc = "loop" /\ idx <= Len(paras)
  /\ current # <<>>
  /\ isHeadingLike(paras[idx].text, paras[idx].style) = FALSE
  /\ SubtitleApplies(current[1], paras[idx].text) = FALSE
  /\ current' = <<AppendBody(current[1], paras[idx].text)>>
  /\ idx' = idx + 1
  /\ UNCHANGED <<fileName, fileType, decoder, paragraphs, fallbackTitle, paras, novelTitle, chapters, result, pc>>
  /\ UNCHANGED <<callVars, storeVars, appVars, swVars, dbVars>>

\* After the loop: pushCurrent()
FinalPush ==
  /\ pc = "loop" /\ idx > Len(paras)
  /\ chapters' = pushCurrent(chapters, current)
  /\ pc' = "fallback"
  /\ UNCHANGED <<fileName, fileType, decoder, paragraphs, fallbackTitle, paras, novelTitle, current, idx, result>>
  /\ UNCHANGED <<callVars, storeVars, appVars, swVars, dbVars>>

\* if (!chapters.length) chapters.push(...)
Fallback ==
  /\ pc = "fallback"
  /\ chapters' = FallbackChapters(chapters, paras)
  /\ pc' = "cleanup"
  /\ UNCHANGED <<fileName, fileType, decoder, paragraphs, fallbackTitle, paras, novelTitle, current, idx, result>>
  /\ UNCHANGED <<callVars, storeVars, appVars, swVars, dbVars>>

\* The clean-up map and the return
Return ==
  /\ pc = "cleanup"
  /\ result' = <<[novelTitle |-> novelTitle, chapters |-> Cleaned(chapters)]>>
  /\ pc' = "done"
  /\ UNCHANGED <<fileName, fileType, decoder, paragraphs, fallbackTitle, paras, novelTitle, chapters, current, idx>>
  /\ UNCHANGED <<callVars, storeVars, appVars, swVars, dbVars>>

Next ==
  \/ ParseImportFile
  \/ Filter
  \/ DetectTitle
  \/ StartChapter
  \/ OpenDraft
  \/ Subtitle
  \/ Body
  \/ FinalPush
  \/ Fallback
  \/ Return

Spec == Init /\ [][Next]_vars


\* ------------------------------------------------------------------------
\* Single calls of the classifier, the patterns, the compiler and the decoder
\* ------------------------------------------------------------------------
\* Bounds: the capitals of an all-caps text, the length of a body text, the
\* w:p elements of a document
MaxCaps == 7
MaxTextLen == 5
MaxDocxParas == 2

tChapterThree == <<"C","h","a","p","t","e","r"," ","T","h","r","e","e",":"," ","T","h","e"," ","A","r","r","i","v","a","l">>
tDarkNight == <<"i","t"," ","w","a","s"," ","a"," ","d","a","r","k"," ","n","i","g","h","t">>
tPrologue == <<"P","r","o","l","o","g","u","e">>
tLowerEnd == <<"t","h","e"," ","e","n","d">>
tTheEndWide == <<"T","H","E"," "," ","E","N","D">>

stHeading2Lower == <<"h","e","a","d","i","n","g"," ","2">>
stHeading2Caps == <<"H","E","A","D","I","N","G","2">>
stTitleLower == <<"t","i","t","l","e">>
stHeading3 == <<"H","e","a","d","i","n","g","3">>
stSubtitle == <<"S","u","b","t","i","t","l","e">>
stHeading10 == <<"H","e","a","d","i","n","g"," ","1","0">>

\* isHeadingLike: every text with every style
HeadingCalls ==
  { Para(t, st) :
      t \in { <<>>, tSpaces, tChapter1, tChapterThree, tDarkNight, tPartTwo,
              tPrologue, tTheEnd, tDawn, tIntro },
      st \in { stNone, stHeading1, stHeading1Id, stHeading2Lower, stHeading2Caps, stTitle,
               stTitleLower, stNormal, stHeading3, stSubtitle, stHeading10 } }

\* isAllCapsShort: capitals, then digits up to and around the length limit, then
\* possibly a lower-case letter, with and without surrounding whitespace
CapsTexts ==
  { pre \o Rep("A", a) \o Rep("1", d) \o low \o post :
      pre \in {<<>>, <<" ">>},
      a \in 0..MaxCaps,
      d \in {0} \cup {AllCapsMaxLen - AllCapsMinLetters + e : e \in {-1, 0, 1}},
      low \in {<<>>, <<"b">>},
      post \in {<<>>, <<" ", "\n">>} }
  \cup { tTheEnd, <<"A">>, tLowerEnd, tTheEndWide }

\* CHAPTER_RE / PART_RE: keyword, separator, number token, tail
PatternTexts ==
  { kw \o sep \o tok \o tail :
      kw \in { <<"c","h","a","p","t","e","r">>,
               <<"C","h","a","p","t","e","r">>,
               <<"C","H","A","P",".">>,
               <<"c","h","a","p">>,
               <<"c","h","a","p","t">>,
               <<"p","a","r","t">>,
               <<"P","a","r","t">>,
               <<"p","a","r","t","s">> },
      sep \in { <<>>, <<" ">> },
      tok \in { <<"1">>,
                <<"1","2">>,
                <<"i","v">>,
                <<"I","X">>,
                <<"o","n","e">>,
                <<"T","e","n">>,
                <<"e","l","e","v","e","n">>,
                <<"t","w","e","l","v","e">>,
                <<"t","h","i","r","t","e","e","n">>,
                <<"3","r","d">>,
                <<"x","1">>,
                <<>> },
      tail \in { <<>>, <<":">>, <<" ","T","h","e">>, <<"s">> } }

\* textToDoc: every string of a letter, a space, "\n" and "\r" up to the bound
BodyTexts == SeqsUpTo({"a", " ", "\n", "\r"}, MaxTextLen)

\* parseDOCX: w:p elements by w:pStyle value and joined pieces
DocxInputs ==
  SeqsUpTo({ [style |-> st, joined |-> j] :
               st \in { stNone, stNormal, stHeading1Id, stHeading2Caps, stHeading3,
                        stTitle, stSubtitle },
               j \in { tDawn, <<" ","\t","\n">>, <<"a"," ","\n"," ","b"," ">> } },
           MaxDocxParas)

\* filenameToTitle: file names with no, one and several dots, blank stems, a missing name
FileTitleNames ==
  { <<>>, fManuscript, fDotRtf, fNotesTxt, tIntro, tPartTwo, tSpaces,
    <<"a",".">>, <<".",".","b">>, <<" ",".","b">>, <<"a",".","b"," ","c">>,
    <<" ","a","\t"," ","b",".","c">>, <<"a",".",".">>, <<".">> }

\* The exporters: one or two chapters, titled or not, whose documents come from textToDoc
\* (one or two paragraphs, with and without a line break) or hold a heading, as the editor
\* makes them
ExportedChapterLists ==
  LET docs == { textToDoc(t) : t \in { <<>>, <<"a">>, <<"a","\n","b">>, <<"a","\n","\n","b">>,
                                        <<"a","\n","\n","b","\n","c">> } }
               \cup { [type |-> "doc",
                       content |-> << [type |-> "heading", content |-> <<TextNode(<<"h">>)>>],
                                      paragraphToTiptap(<<"a">>), paragraphToTiptap(<<"b">>) >>] }
      chs == { [title |-> ti, content |-> d] : ti \in {<<>>, tIntro}, d \in docs }
  IN  { <<c>> : c \in chs } \cup { <<c, [title |-> tIntro, content |-> textToDoc(<<"z">>)]>> : c \in chs }

\* No import is modelled
NoImport ==
  /\ fileName = <<>> /\ fileType = <<>> /\ decoder = "none" /\ paragraphs = <<>>
  /\ fallbackTitle = <<>> /\ paras = <<>> /\ novelTitle = <<>> /\ chapters = <<>>
  /\ current = <<>> /\ idx = 1 /\ result = <<>> /\ pc = "none"

CallInit ==
  /\ NoImport /\ NoStore /\ NoApp /\ NoSw /\ NoDb
  /\ returned = <<>> /\ plainText = <<>>
  /\ \/ callee = "isHeadingLike" /\ args \in HeadingCalls
     \/ callee = "isAllCapsShort" /\ args \in CapsTexts
     \/ callee = "CHAPTER_RE" /\ args \in PatternTexts
     \/ callee = "PART_RE" /\ args \in PatternTexts
     \/ callee = "textToDoc" /\ args \in BodyTexts
     \/ callee = "parseDOCX" /\ args \in DocxInputs
     \/ callee = "filenameToTitle" /\ args \in FileTitleNames
     \/ /\ callee \in {"exportDOCX", "exportPDF"}
        /\ args \in [chapters : ExportedChapterLists, includeHeadings : BOOLEAN]

CallIsHeadingLike ==
  /\ callee = "isHeadingLike" /\ returned = <<>>
  /\ returned' = <<isHeadingLike(args.text, args.style)>>
  /\ UNCHANGED <<callee, args, plainText, importVars, storeVars, appVars, swVars, dbVars>>

CallIsAllCapsShort ==
  /\ callee = "isAllCapsShort" /\ returned = <<>>
  /\ returned' = <<isAllCapsShort(args)>>
  /\ UNCHANGED <<callee, args, plainText, importVars, storeVars, appVars, swVars, dbVars>>

\* CHAPTER_RE.test(t)
CallChapterRE ==
  /\ callee = "CHAPTER_RE" /\ returned = <<>>
  /\ returned' = <<CHAPTER_RE(args)>>
  /\ UNCHANGED <<callee, args, plainText, importVars, storeVars, appVars, swVars, dbVars>>

\* PART_RE.test(t)
CallPartRE ==
  /\ callee = "PART_RE" /\ returned = <<>>
  /\ returned' = <<PART_RE(args)>>
  /\ UNCHANGED <<callee, args, plainText, importVars, storeVars, appVars, swVars, dbVars>>

CallTextToDoc ==
  /\ callee = "textToDoc" /\ returned = <<>>
  /\ returned' = <<textToDoc(args)>>
  /\ UNCHANGED <<callee, args, plainText, importVars, storeVars, appVars, swVars, dbVars>>

\* editorToPlainText on the document textToDoc returned
CallEditorToPlainText ==
  /\ callee = "textToDoc" /\ returned # <<>> /\ plainText = <<>>
  /\ plainText' = <<editorToPlainText(returned[1])>>
  /\ UNCHANGED <<callee, args, returned, importVars, storeVars, appVars, swVars, dbVars>>

CallParseDOCX ==
  /\ callee = "parseDOCX" /\ returned = <<>>
  /\ returned' = <<parseDOCX(args)>>
  /\ UNCHANGED <<callee, args, plainText, importVars, storeVars, appVars, swVars, dbVars>>

CallFilenameToTitle ==
  /\ callee = "filenameToTitle" /\ returned = <<>>
  /\ returned' = <<filenameToTitle(args)>>
  /\ UNCHANGED <<callee, args, plainText, importVars, storeVars, appVars, swVars, dbVars>>

CallExportDOCX ==
  /\ callee = "exportDOCX" /\ returned = <<>>
  /\ returned' = <<exportDOCX(args.chapters, args.includeHeadings)>>
  /\ UNCHANGED <<callee, args, plainText, importVars, storeVars, appVars, swVars, dbVars>>

CallExportPDF ==
  /\ callee = "exportPDF" /\ returned = <<>>
  /\ returned' = <<exportPDF(args.chapters, args.includeHeadings)>>
  /\ UNCHANGED <<callee, args, plainText, importVars, storeVars, appVars, swVars, dbVars>>

CallNext ==
  \/ CallIsHeadingLike
  \/ CallIsAllCapsShort
  \/ CallChapterRE
  \/ CallPartRE
  \/ CallTextToDoc
  \/ CallEditorToPlainText
  \/ CallParseDOCX
  \/ CallFilenameToTitle
  \/ CallExportDOCX
  \/ CallExportPDF

CallSpec == CallInit /\ [][CallNext]_vars

\* ------------------------------------------------------------------------
\* storage.js: the operations on db.novels and db.chapters
\* ------------------------------------------------------------------------
\* Bounds: the chapters stored before an import, the paragraphs of the imported file
MaxStored == 2
MaxImported == 2

sDefault == "default"

\* db.novels.get(novelId); if (!n) return; n.title = title; db.novels.put(n)
updateNovelTitle(novels, novelId, title) ==
  IF novelId \notin DOMAIN novels THEN novels
  ELSE [novels EXCEPT ![novelId] = [@ EXCEPT !.title = title]]

\* db.chapters.where({ novelId }).sortBy("order"), as the sequence of the ids
RECURSIVE SortByOrder(_, _)
SortByOrder(chs, ids) ==
  IF ids = {} THEN <<>>
  ELSE LET first == CHOOSE i \in ids : \A j \in ids :
                      \/ chs[i].order < chs[j].order
                      \/ (chs[i].order = chs[j].order /\ i <= j)
       IN  <<first>> \o SortByOrder(chs, ids \ {first})

getNovel(chs, novelId) == SortByOrder(chs, {i \in DOMAIN chs : chs[i].novelId = novelId})

deleteChapter(chs, id) == [i \in DOMAIN chs \ {id} |-> chs[i]]

\* createChapter(novelId, title), id being what crypto.randomUUID returns
createChapter(chs, id, novelId, title) ==
  LET orders == {chs[i].order : i \in {j \in DOMAIN chs : chs[j].novelId = novelId}}
      chap == [novelId |-> novelId, order |-> SetMax(orders \cup {0}) + 1, title |-> title,
               content |-> [type |-> "doc", content |-> <<EmptyParagraph>>]]
  IN  [i \in DOMAIN chs \cup {id} |-> IF i = id THEN chap ELSE chs[i]]

\* Object.assign(c, patch), for the patch { title, order, content }
updateChapterMeta(chs, id, patch) ==
  IF id \notin DOMAIN chs THEN chs
  ELSE [chs EXCEPT ![id] = [@ EXCEPT !.title = patch.title, !.order = patch.order,
                                     !.content = patch.content]]

\* reorderChapters writing the index itself, not index + 1
reorderChapters_ZeroBased(chs, novelId, orderedIds) ==
  LET At(i) == SetMax({k \in 1..Len(orderedIds) : orderedIds[k] = i})
  IN  [i \in DOMAIN chs |->
         IF chs[i].novelId = novelId /\ \E k \in 1..Len(orderedIds) : orderedIds[k] = i
         THEN [chs[i] EXCEPT !.order = At(i) - 1] ELSE chs[i]]

\* The transaction of reorderChapters: c.order = i + 1 for every listed chapter of the novel
reorderChapters(chs, novelId, orderedIds) ==
  LET At(i) == SetMax({k \in 1..Len(orderedIds) : orderedIds[k] = i})
  IN  [i \in DOMAIN chs |->
         IF chs[i].novelId = novelId /\ \E k \in 1..Len(orderedIds) : orderedIds[k] = i
         THEN [chs[i] EXCEPT !.order = At(i)] ELSE chs[i]]

\* ch.title || `Chapter ${i + 1}` and ch.doc || { empty document }, i counted from 1 here
ImportedTitle(ch, i) == IF ch.title # <<>> THEN ch.title ELSE ChapterLabel(i)
ImportedContent(ch) ==
  IF "doc" \in DOMAIN ch THEN ch.doc ELSE [type |-> "doc", content |-> <<EmptyParagraph>>]

\* The transaction of replaceFromImport: the novel record, then the chapters
replaceFromImportNovels(novels, novelId, title) ==
  LET newTitle == IF title # <<>> THEN title
                  ELSE IF novelId \in DOMAIN novels /\ novels[novelId].title # <<>>
                       THEN novels[novelId].title ELSE sUntitledNovel
  IN  [n \in DOMAIN novels \cup {novelId} |-> IF n = novelId THEN [title |-> newTitle] ELSE novels[n]]

\* db.chapters.where({ novelId }).delete(), then one put per imported chapter, ids being fresh
replaceFromImportChapters(chs, ids, novelId, imported) ==
  [i \in {j \in DOMAIN chs : chs[j].novelId # novelId} \cup {ids[k] : k \in 1..Len(imported)} |->
     IF \E k \in 1..Len(imported) : ids[k] = i
     THEN LET k == CHOOSE k \in 1..Len(imported) : ids[k] = i
          IN  [novelId |-> novelId, order |-> k, title |-> ImportedTitle(imported[k], k),
               content |-> ImportedContent(imported[k])]
     ELSE chs[i]]

\* ------------------------------------------------------------------------
\* app.js: the change handler of #importDocRtf and replaceNovelWithImport
\* ------------------------------------------------------------------------
\* What parseImportFile can return, and a value without chapters
ImportResults ==
  { splitFromParagraphs(ps, filenameToTitle(fManuscript)) :
      ps \in SeqsUpTo({Para(tChapter1, stNone), Para(tDawn, stNone), Para(tTheEnd, stHeading2)},
                      MaxImported) }
  \cup { [novelTitle |-> tMyNovel, chapters |-> <<>>] }

\* The chapters stored before the import: k of the current novel, possibly one of another
StoredChapters(k, other) ==
  [i \in 1..(k + (IF other THEN 1 ELSE 0)) |->
     [novelId |-> IF i <= k THEN sDefault ELSE "other", order |-> IF i <= k THEN i ELSE 1,
      title |-> ChapterLabel(i), content |-> textToDoc(tArrival)]]

StoreInit ==
  /\ NoImport /\ NoCall /\ NoApp /\ NoSw /\ NoDb
  /\ dbNovels = [n \in {sDefault} |-> [title |-> sUntitledNovel]]
  /\ \E k \in 0..MaxStored, other \in BOOLEAN :
       dbChapters = StoredChapters(k, other) /\ uuid = Len(StoredChapters(k, other))
  /\ importer \in {"replaceNovelWithImport", "replaceFromImport"}
  /\ parsed = <<>> /\ toDelete = <<>> /\ created = <<>> /\ newIds = <<>>
  /\ before = [novels |-> dbNovels, chapters |-> dbChapters]
  /\ ipc = "parseImportFile"

\* const parsed = await mod.parseImportFile(file)
ParseFile ==
  /\ ipc = "parseImportFile"
  /\ \E r \in ImportResults : parsed' = <<r>>
  /\ ipc' = "replace"
  /\ UNCHANGED <<dbNovels, dbChapters, uuid, importer, toDelete, created, newIds, before>>
  /\ UNCHANGED <<importVars, callVars, appVars, swVars, dbVars>>

\* Entry of either routine: if (!chapters.length) throw
Replace ==
  /\ ipc = "replace"
  /\ ipc' = IF Len(parsed[1].chapters) = 0 THEN "failed"
            ELSE IF importer = "replaceFromImport" THEN "transaction"
            ELSE "updateNovelTitle"
  /\ UNCHANGED <<dbNovels, dbChapters, uuid, importer, parsed, toDelete, created, newIds, before>>
  /\ UNCHANGED <<importVars, callVars, appVars, swVars, dbVars>>

\* await updateNovelTitle(state.novelId, novelTitle)
UpdateNovelTitle ==
  /\ ipc = "updateNovelTitle"
  /\ dbNovels' = updateNovelTitle(dbNovels, sDefault,
                   IF parsed[1].novelTitle # <<>> THEN parsed[1].novelTitle ELSE sUntitledNovel)
  /\ ipc' = "getNovel"
  /\ UNCHANGED <<dbChapters, uuid, importer, parsed, toDelete, created, newIds, before>>
  /\ UNCHANGED <<importVars, callVars, appVars, swVars, dbVars>>

\* const current = await getNovel(state.novelId)
GetNovel ==
  /\ ipc = "getNovel"
  /\ toDelete' = getNovel(dbChapters, sDefault)
  /\ ipc' = IF toDelete' = <<>> THEN "createChapter" ELSE "deleteChapter"
  /\ UNCHANGED <<dbNovels, dbChapters, uuid, importer, parsed, created, newIds, before>>
  /\ UNCHANGED <<importVars, callVars, appVars, swVars, dbVars>>

\* for (const c of current.chapters) await deleteChapter(c.id)
DeleteChapter ==
  /\ ipc = "deleteChapter"
  /\ dbChapters' = deleteChapter(dbChapters, Head(toDelete))
  /\ toDelete' = Tail(toDelete)
  /\ ipc' = IF toDelete' = <<>> THEN "createChapter" ELSE "deleteChapter"
  /\ UNCHANGED <<dbNovels, uuid, importer, parsed, created, newIds, before>>
  /\ UNCHANGED <<importVars, callVars, appVars, swVars, dbVars>>

\* const created = await createChapter(state.novelId, title)
CreateChapter ==
  /\ ipc = "createChapter"
  /\ LET i == Len(newIds) + 1
     IN  dbChapters' = createChapter(dbChapters, uuid + 1, sDefault,
                                     ImportedTitle(parsed[1].chapters[i], i))
  /\ uuid' = uuid + 1
  /\ created' = <<uuid + 1>>
  /\ ipc' = "updateChapterMeta"
  /\ UNCHANGED <<dbNovels, importer, parsed, toDelete, newIds, before>>
  /\ UNCHANGED <<importVars, callVars, appVars, swVars, dbVars>>

\* await updateChapterMeta(created.id, { title, order: i + 1, content }); newIds.push(created.id)
UpdateChapterMeta ==
  /\ ipc = "updateChapterMeta"
  /\ LET i == Len(newIds) + 1
         ch == parsed[1].chapters[i]
     IN  dbChapters' = updateChapterMeta(dbChapters, created[1],
                         [title |-> ImportedTitle(ch, i), order |-> i, content |-> ImportedContent(ch)])
  /\ newIds' = Append(newIds, created[1])
  /\ created' = <<>>
  /\ ipc' = IF Len(newIds') < Len(parsed[1].chapters) THEN "createChapter" ELSE "reorderChapters"
  /\ UNCHANGED <<dbNovels, uuid, importer, parsed, toDelete, before>>
  /\ UNCHANGED <<importVars, callVars, appVars, swVars, dbVars>>

\* await reorderChapters(state.novelId, newIds), and the return to the handler
ReorderChapters ==
  /\ ipc = "reorderChapters"
  /\ dbChapters' = reorderChapters(dbChapters, sDefault, newIds)
  /\ ipc' = "done"
  /\ UNCHANGED <<dbNovels, uuid, importer, parsed, toDelete, created, newIds, before>>
  /\ UNCHANGED <<importVars, callVars, appVars, swVars, dbVars>>

\* replaceFromImport: the whole transaction commits
Transaction ==
  /\ ipc = "transaction"
  /\ LET imported == parsed[1].chapters
         ids == [k \in 1..Len(imported) |-> uuid + k]
     IN  /\ dbNovels' = replaceFromImportNovels(dbNovels, sDefault, parsed[1].novelTitle)
         /\ dbChapters' = replaceFromImportChapters(dbChapters, ids, sDefault, imported)
         /\ newIds' = ids
         /\ uuid' = uuid + Len(imported)
  /\ ipc' = "done"
  /\ UNCHANGED <<importer, parsed, toDelete, created, before>>
  /\ UNCHANGED <<importVars, callVars, appVars, swVars, dbVars>>

\* The awaited call rejects (parseImportFile throws, a database request fails, the
\* transaction aborts): it writes nothing and the handler's catch block runs
Catch ==
  /\ ipc \in {"parseImportFile", "updateNovelTitle", "getNovel", "deleteChapter", "createChapter",
              "updateChapterMeta", "reorderChapters", "transaction"}
  /\ ipc' = "failed"
  /\ UNCHANGED <<dbNovels, dbChapters, uuid, importer, parsed, toDelete, created, newIds, before>>
  /\ UNCHANGED <<importVars, callVars, appVars, swVars, dbVars>>

StoreNext ==
  \/ ParseFile
  \/ Replace
  \/ UpdateNovelTitle
  \/ GetNovel
  \/ DeleteChapter
  \/ CreateChapter
  \/ UpdateChapterMeta
  \/ ReorderChapters
  \/ Transaction
  \/ Catch

StoreSpec == StoreInit /\ [][StoreNext]_vars

\* ------------------------------------------------------------------------
\* app.js: the page. Editor updates, the chapter list and its handlers, autosave
\* ------------------------------------------------------------------------
\* Bounds: user events in a run, handlers waiting for the database at once, chapter ids
\* handed out
MaxEvents == 3
MaxTasks == 2
MaxIds == 3

\* What the page leaves alone: the importer, the single calls, the Word/RTF import handler,
\* the service worker
notAppVars == <<importVars, callVars, importer, parsed, toDelete, created, newIds, before, ipc,
               swVars, dbVars>>

\* setEditorDoc's default and createChapter's content: { type: "doc", content: [{ type: "paragraph" }] }
DefaultDoc == [type |-> "doc", content |-> <<EmptyParagraph>>]

\* Object.assign(c, patch)
ObjectAssign(c, patch) == [f \in DOMAIN c |-> IF f \in DOMAIN patch THEN patch[f] ELSE c[f]]

\* state.chapters.map(c => c.id)
ChapterIds(chs) == [k \in 1..Len(chs) |-> chs[k].id]

\* ids.indexOf(id) counted from 1, 0 for -1
IndexOf(ids, id) == IF \E k \in 1..Len(ids) : ids[k] = id
                    THEN SetMin({k \in 1..Len(ids) : ids[k] = id}) ELSE 0

RemoveAt(s, i) == SubSeq(s, 1, i - 1) \o SubSeq(s, i + 1, Len(s))

\* The dragged id inserted in front of the target wherever it came from
MoveTo_BeforeTarget(ids, from, to) ==
  LET rest == RemoveAt(ids, from)
      at == IF from < to THEN to - 1 ELSE to
  IN  SubSeq(rest, 1, at - 1) \o <<ids[from]>> \o SubSeq(rest, at, Len(rest))

\* ids.splice(to, 0, ids.splice(from, 1)[0]), from and to counted from 1
MoveTo(ids, from, to) ==
  LET rest == RemoveAt(ids, from)
  IN  SubSeq(rest, 1, to - 1) \o <<ids[from]>> \o SubSeq(rest, to, Len(rest))

\* getNovel(novelId).chapters as the page keeps them
LoadedChapters(chs, novelId) ==
  LET ids == getNovel(chs, novelId)
  IN  [k \in 1..Len(ids) |-> [id |-> ids[k], title |-> chs[ids[k]].title, content |-> chs[ids[k]].content]]

\* importBackup: the checks that throw. payload.novel is <<>> or <<novel>>, payload.chapters
\* is <<>> when it is not an array and <<array>> when it is
ValidBackup(payload) ==
  /\ payload.schemaVersion = 1
  /\ payload.novel # <<>> /\ payload.novel[1].id # ""
  /\ payload.chapters # <<>>

\* importBackup: the transaction, on db.novels and on db.chapters
importBackupNovels(novels, payload) ==
  [n \in DOMAIN novels \cup {payload.novel[1].id} |->
     IF n = payload.novel[1].id THEN [title |-> payload.novel[1].title] ELSE novels[n]]

importBackupChapters(chs, payload) ==
  LET novelId == payload.novel[1].id
      cs == payload.chapters[1]
      kept == {j \in DOMAIN chs : chs[j].novelId # novelId}
      Last(i) == SetMax({k \in 1..Len(cs) : cs[k].id = i})
  IN  [i \in kept \cup {cs[k].id : k \in 1..Len(cs)} |->
         IF \E k \in 1..Len(cs) : cs[k].id = i
         THEN [novelId |-> novelId, order |-> cs[Last(i)].order, title |-> cs[Last(i)].title,
               content |-> cs[Last(i)].content]
         ELSE chs[i]]

\* flushChapterTitle: the title it would store, and whether it has anything to store
FieldTitle == IF trim(chapterTitle) # <<>> THEN trim(chapterTitle) ELSE sUntitledChapter

NeedsFlush(chs) ==
  /\ activeChapterId # 0
  /\ IndexOf(ChapterIds(chs), activeChapterId) # 0
  /\ chs[IndexOf(ChapterIds(chs), activeChapterId)].title # FieldTitle

\* The end of openChapter: the active id, the title field, the editor
ShowChapter(chs, id) ==
  LET k == IndexOf(ChapterIds(chs), id)
  IN  /\ activeChapterId' = id
      /\ chapterTitle' = IF k # 0 THEN chs[k].title ELSE <<>>
      /\ editorDoc' = IF k # 0 THEN chs[k].content ELSE DefaultDoc

\* openChapter(id) up to its first database request, chs being state.chapters and rest the
\* other handlers in flight: nothing when id is active; the title flush when the title
\* changed, which leaves the handler waiting; else the switch at once
openChapter(chs, id, rest) ==
  IF id = activeChapterId
  THEN stateChapters' = chs /\ tasks' = rest /\ UNCHANGED <<activeChapterId, chapterTitle, editorDoc>>
  ELSE IF NeedsFlush(chs) = TRUE
  THEN /\ stateChapters' = [chs EXCEPT ![IndexOf(ChapterIds(chs), activeChapterId)].title = FieldTitle]
       /\ tasks' = Append(rest, [kind |-> "openChapter", pc |-> "get", id |-> activeChapterId,
                                  patch |-> [title |-> FieldTitle], c |-> <<>>, next |-> id])
       /\ UNCHANGED <<activeChapterId, chapterTitle, editorDoc>>
  ELSE stateChapters' = chs /\ tasks' = rest /\ ShowChapter(chs, id)

\* The backups offered to the import: one of the novel with its first chapter only, one with
\* no chapter, one of an unsupported schema version
Backups ==
  { [schemaVersion |-> v, novel |-> <<[id |-> sDefault, title |-> tMyNovel]>>, chapters |-> <<cs>>] :
      v \in {1, 2},
      cs \in { <<>>, <<[id |-> 1, order |-> 1, title |-> ChapterLabel(1), content |-> textToDoc(tArrival)]>> } }

AppInit ==
  /\ NoImport /\ NoCall /\ NoSw /\ NoDb
  /\ importer = "none" /\ parsed = <<>> /\ toDelete = <<>> /\ created = <<>>
  /\ newIds = <<>> /\ before = <<>> /\ ipc = "none"
  /\ dbNovels = [n \in {sDefault} |-> [title |-> sUntitledNovel]]
  /\ \E k \in 0..MaxStored : dbChapters = StoredChapters(k, FALSE) /\ uuid = k
  /\ stateNovelId = sDefault
  /\ stateChapters = LoadedChapters(dbChapters, sDefault)
  /\ activeChapterId = IF stateChapters # <<>> THEN stateChapters[1].id ELSE 0
  /\ chapterTitle = IF stateChapters # <<>> THEN stateChapters[1].title ELSE <<>>
  /\ editorDoc = IF stateChapters # <<>> THEN stateChapters[1].content ELSE DefaultDoc
  /\ writeTimer = <<>> /\ tasks = <<>> /\ events = 0

\* onEditorUpdate storing the document in the first chapter of the list, not the active one
OnEditorUpdate_FirstChapter ==
  /\ events < MaxEvents
  /\ \E jsonDoc \in {textToDoc(tDawn)} :
       /\ jsonDoc # editorDoc
       /\ editorDoc' = jsonDoc
       /\ IF activeChapterId # 0 /\ IndexOf(ChapterIds(stateChapters), activeChapterId) # 0
          THEN /\ stateChapters' = [stateChapters EXCEPT ![1].content = jsonDoc]
               /\ writeTimer' = <<[id |-> activeChapterId, patch |-> [content |-> jsonDoc]]>>
          ELSE UNCHANGED <<stateChapters, writeTimer>>
  /\ events' = events + 1
  /\ UNCHANGED <<stateNovelId, activeChapterId, chapterTitle, tasks, dbNovels, dbChapters, uuid>>
  /\ UNCHANGED notAppVars

\* The user edits the document: the editor's onUpdate calls onEditorUpdate(editor.getJSON())
OnEditorUpdate ==
  /\ events < MaxEvents
  /\ \E jsonDoc \in {textToDoc(tDawn)} :
       /\ jsonDoc # editorDoc
       /\ editorDoc' = jsonDoc
       /\ LET k == IndexOf(ChapterIds(stateChapters), activeChapterId)
          IN  IF activeChapterId # 0 /\ k # 0
              THEN /\ stateChapters' = [stateChapters EXCEPT ![k].content = jsonDoc]
                   /\ writeTimer' = <<[id |-> activeChapterId, patch |-> [content |-> jsonDoc]]>>
              ELSE UNCHANGED <<stateChapters, writeTimer>>
  /\ events' = events + 1
  /\ UNCHANGED <<stateNovelId, activeChapterId, chapterTitle, tasks, dbNovels, dbChapters, uuid>>
  /\ UNCHANGED notAppVars

\* The timer of writeChapterDebounced fires: fn(...args) starts with the last arguments
WriteChapterDebounced ==
  /\ writeTimer # <<>>
  /\ Len(tasks) < MaxTasks
  /\ tasks' = Append(tasks, [kind |-> "writeChapterDebounced", pc |-> "get", id |-> writeTimer[1].id,
                              patch |-> writeTimer[1].patch, c |-> <<>>])
  /\ writeTimer' = <<>>
  /\ UNCHANGED <<stateNovelId, stateChapters, activeChapterId, editorDoc, chapterTitle, events,
                 dbNovels, dbChapters, uuid>>
  /\ UNCHANGED notAppVars

\* What follows updateChapterMeta in handler i: openChapter goes on, the others are over
AfterUpdateChapterMeta(i) ==
  IF tasks[i].kind = "openChapter" THEN [tasks EXCEPT ![i].pc = "show"] ELSE RemoveAt(tasks, i)

\* updateChapterMeta: c = await db.chapters.get(id); if (!c) return; Object.assign(c, patch)
ChaptersGet(i) ==
  /\ tasks[i].pc = "get"
  /\ tasks' = IF tasks[i].id \in DOMAIN dbChapters
              THEN [tasks EXCEPT ![i].pc = "put",
                                 ![i].c = <<ObjectAssign(dbChapters[tasks[i].id], tasks[i].patch)>>]
              ELSE AfterUpdateChapterMeta(i)
  /\ UNCHANGED <<stateNovelId, stateChapters, activeChapterId, editorDoc, chapterTitle, writeTimer,
                 events, dbNovels, dbChapters, uuid>>
  /\ UNCHANGED notAppVars

\* updateChapterMeta: await db.chapters.put(c), the record read before
ChaptersPut(i) ==
  /\ tasks[i].pc = "put"
  /\ dbChapters' = [j \in DOMAIN dbChapters \cup {tasks[i].id} |->
                      IF j = tasks[i].id THEN tasks[i].c[1] ELSE dbChapters[j]]
  /\ tasks' = AfterUpdateChapterMeta(i)
  /\ UNCHANGED <<stateNovelId, stateChapters, activeChapterId, editorDoc, chapterTitle, writeTimer,
                 events, dbNovels, uuid>>
  /\ UNCHANGED notAppVars

\* openChapter after await flushChapterTitle()
FinishOpenChapter(i) ==
  /\ tasks[i].pc = "show"
  /\ ShowChapter(stateChapters, tasks[i].next)
  /\ tasks' = RemoveAt(tasks, i)
  /\ UNCHANGED <<stateNovelId, stateChapters, writeTimer, events, dbNovels, dbChapters, uuid>>
  /\ UNCHANGED notAppVars

\* A click on another item of the chapter list
ClickChapter ==
  /\ events < MaxEvents
  /\ \E k \in 1..Len(stateChapters) :
       /\ stateChapters[k].id # activeChapterId
       /\ NeedsFlush(stateChapters) = TRUE => Len(tasks) < MaxTasks
       /\ openChapter(stateChapters, stateChapters[k].id, tasks)
  /\ events' = events + 1
  /\ UNCHANGED <<stateNovelId, writeTimer, dbNovels, dbChapters, uuid>>
  /\ UNCHANGED notAppVars

\* The user types in the #chapterTitle field
InputChapterTitle ==
  /\ events < MaxEvents
  /\ \E t \in {tIntro, tSpaces} : t # chapterTitle /\ chapterTitle' = t
  /\ events' = events + 1
  /\ UNCHANGED <<stateNovelId, stateChapters, activeChapterId, editorDoc, writeTimer, tasks,
                 dbNovels, dbChapters, uuid>>
  /\ UNCHANGED notAppVars

\* blur of #chapterTitle: flushChapterTitle with a title to store
FlushChapterTitle ==
  /\ events < MaxEvents
  /\ Len(tasks) < MaxTasks
  /\ NeedsFlush(stateChapters) = TRUE
  /\ stateChapters' = [stateChapters EXCEPT
                         ![IndexOf(ChapterIds(stateChapters), activeChapterId)].title = FieldTitle]
  /\ tasks' = Append(tasks, [kind |-> "flushChapterTitle", pc |-> "get", id |-> activeChapterId,
                              patch |-> [title |-> FieldTitle], c |-> <<>>])
  /\ events' = events + 1
  /\ UNCHANGED <<stateNovelId, activeChapterId, editorDoc, chapterTitle, writeTimer,
                 dbNovels, dbChapters, uuid>>
  /\ UNCHANGED notAppVars

\* click on #btnNewChapter: createChapter(state.novelId, `Chapter ${state.chapters.length + 1}`)
BtnNewChapter ==
  /\ events < MaxEvents
  /\ Len(tasks) < MaxTasks
  /\ uuid + Cardinality({i \in 1..Len(tasks) : tasks[i].pc \in {"toArray", "putNew"}}) < MaxIds
  /\ tasks' = Append(tasks, [kind |-> "btnNewChapter", pc |-> "toArray", novelId |-> stateNovelId,
                              title |-> ChapterLabel(Len(stateChapters) + 1), order |-> 0, id |-> 0])
  /\ events' = events + 1
  /\ UNCHANGED <<stateNovelId, stateChapters, activeChapterId, editorDoc, chapterTitle, writeTimer,
                 dbNovels, dbChapters, uuid>>
  /\ UNCHANGED notAppVars

\* createChapter: chapters = await db.chapters.where({ novelId }).toArray(); maxOrder + 1
ChaptersToArray(i) ==
  /\ tasks[i].pc = "toArray"
  /\ LET orders == {dbChapters[j].order : j \in {j \in DOMAIN dbChapters :
                                                   dbChapters[j].novelId = tasks[i].novelId}}
     IN  tasks' = [tasks EXCEPT ![i].pc = "putNew", ![i].order = SetMax(orders \cup {0}) + 1]
  /\ UNCHANGED <<stateNovelId, stateChapters, activeChapterId, editorDoc, chapterTitle, writeTimer,
                 events, dbNovels, dbChapters, uuid>>
  /\ UNCHANGED notAppVars

\* createChapter: await db.chapters.put(chap), under a fresh id
ChaptersPutNew(i) ==
  /\ tasks[i].pc = "putNew"
  /\ uuid' = uuid + 1
  /\ dbChapters' = [j \in DOMAIN dbChapters \cup {uuid'} |->
                      IF j = uuid'
                      THEN [novelId |-> tasks[i].novelId, order |-> tasks[i].order,
                            title |-> tasks[i].title, content |-> DefaultDoc]
                      ELSE dbChapters[j]]
  /\ tasks' = [tasks EXCEPT ![i].pc = "push", ![i].id = uuid']
  /\ UNCHANGED <<stateNovelId, stateChapters, activeChapterId, editorDoc, chapterTitle, writeTimer,
                 events, dbNovels>>
  /\ UNCHANGED notAppVars

\* #btnNewChapter after createChapter: state.chapters.push(chap); await openChapter(chap.id)
PushChapter(i) ==
  /\ tasks[i].pc = "push"
  /\ openChapter(Append(stateChapters, [id |-> tasks[i].id, title |-> tasks[i].title,
                                         content |-> DefaultDoc]),
                 tasks[i].id, RemoveAt(tasks, i))
  /\ UNCHANGED <<stateNovelId, writeTimer, events, dbNovels, dbChapters, uuid>>
  /\ UNCHANGED notAppVars

\* click on #btnDeleteChapter, confirmed: deleteChapter(state.activeChapterId)
BtnDeleteChapter ==
  /\ events < MaxEvents
  /\ Len(tasks) < MaxTasks
  /\ activeChapterId # 0
  /\ tasks' = Append(tasks, [kind |-> "btnDeleteChapter", pc |-> "delete", id |-> activeChapterId])
  /\ events' = events + 1
  /\ UNCHANGED <<stateNovelId, stateChapters, activeChapterId, editorDoc, chapterTitle, writeTimer,
                 dbNovels, dbChapters, uuid>>
  /\ UNCHANGED notAppVars

\* deleteChapter: await db.chapters.delete(id)
ChaptersDelete(i) ==
  /\ tasks[i].pc = "delete"
  /\ dbChapters' = deleteChapter(dbChapters, tasks[i].id)
  /\ tasks' = [tasks EXCEPT ![i].pc = "afterDelete"]
  /\ UNCHANGED <<stateNovelId, stateChapters, activeChapterId, editorDoc, chapterTitle, writeTimer,
                 events, dbNovels, uuid>>
  /\ UNCHANGED notAppVars

\* #btnDeleteChapter after deleteChapter: the filter, the first chapter made active, and
\* openChapter(state.activeChapterId), which returns at once as that id is the active one
AfterDelete(i) ==
  /\ tasks[i].pc = "afterDelete"
  /\ LET chs == SelectSeq(stateChapters, LAMBDA c : c.id # tasks[i].id)
     IN  /\ stateChapters' = chs
         /\ activeChapterId' = IF chs # <<>> THEN chs[1].id ELSE 0
  /\ tasks' = RemoveAt(tasks, i)
  /\ UNCHANGED <<stateNovelId, editorDoc, chapterTitle, writeTimer, events, dbNovels, dbChapters, uuid>>
  /\ UNCHANGED notAppVars

\* drop of the dragged item on the item of chapter targetId: the list is re-ordered at once, then
\* reorderChapters is awaited; nothing for no id, the item itself or an unknown id
DropOn(draggedId, targetId) ==
  /\ events < MaxEvents
  /\ Len(tasks) < MaxTasks
  /\ LET ids == ChapterIds(stateChapters)
         from == IndexOf(ids, draggedId)
         to == IndexOf(ids, targetId)
         moved == MoveTo(ids, from, to)
     IN  IF draggedId = 0 \/ draggedId = targetId \/ from = 0 \/ to = 0
         THEN UNCHANGED <<stateChapters, tasks, events>>
         ELSE /\ stateChapters' = [k \in 1..Len(moved) |->
                                     stateChapters[IndexOf(ids, moved[k])]]
              /\ tasks' = Append(tasks, [kind |-> "drop", pc |-> "reorderChapters",
                                          draggedId |-> draggedId, targetId |-> targetId,
                                          novelId |-> stateNovelId, ids |-> moved])
              /\ events' = events + 1
  /\ UNCHANGED <<stateNovelId, activeChapterId, editorDoc, chapterTitle, writeTimer,
                 dbNovels, dbChapters, uuid>>
  /\ UNCHANGED notAppVars

\* The data of the drag is no id, the id of a listed chapter or one that is not listed
Drop ==
  \E draggedId \in 0..MaxIds, k \in 1..Len(stateChapters) : DropOn(draggedId, stateChapters[k].id)

\* reorderChapters: the transaction
ReorderTransaction(i) ==
  /\ tasks[i].pc = "reorderChapters"
  /\ dbChapters' = reorderChapters(dbChapters, tasks[i].novelId, tasks[i].ids)
  /\ tasks' = RemoveAt(tasks, i)
  /\ UNCHANGED <<stateNovelId, stateChapters, activeChapterId, editorDoc, chapterTitle, writeTimer,
                 events, dbNovels, uuid>>
  /\ UNCHANGED notAppVars

\* change of #importFile: a backup file is chosen. Its chapters were exported earlier, so
\* their ids are among those handed out so far
ImportFileChange ==
  /\ events < MaxEvents
  /\ Len(tasks) < MaxTasks
  /\ \E payload \in Backups :
       /\ \A k \in 1..Len(payload.chapters[1]) : payload.chapters[1][k].id <= uuid
       /\ tasks' = Append(tasks, [kind |-> "importFile", pc |-> "importBackup", payload |-> payload])
  /\ events' = events + 1
  /\ UNCHANGED <<stateNovelId, stateChapters, activeChapterId, editorDoc, chapterTitle, writeTimer,
                 dbNovels, dbChapters, uuid>>
  /\ UNCHANGED notAppVars

\* await importBackup(payload): it throws, which ends the handler, or its transaction
\* commits and the handler sets state.novelId and state.activeChapterId = null
ImportBackupTransaction(i) ==
  /\ tasks[i].pc = "importBackup"
  /\ IF ValidBackup(tasks[i].payload) = TRUE
     THEN /\ dbNovels' = importBackupNovels(dbNovels, tasks[i].payload)
          /\ dbChapters' = importBackupChapters(dbChapters, tasks[i].payload)
          /\ stateNovelId' = tasks[i].payload.novel[1].id
          /\ activeChapterId' = 0
          /\ tasks' = [tasks EXCEPT ![i].pc = "loadFromDB"]
     ELSE /\ tasks' = RemoveAt(tasks, i)
          /\ UNCHANGED <<dbNovels, dbChapters, stateNovelId, activeChapterId>>
  /\ UNCHANGED <<stateChapters, editorDoc, chapterTitle, writeTimer, events, uuid>>
  /\ UNCHANGED notAppVars

\* loadFromDB: the chapters of getNovel, an active chapter ensured, title field and editor
LoadFromDB(i) ==
  /\ tasks[i].pc = "loadFromDB"
  /\ LET chs == LoadedChapters(dbChapters, stateNovelId)
         active == IF activeChapterId = 0 \/ IndexOf(ChapterIds(chs), activeChapterId) = 0
                   THEN (IF chs # <<>> THEN chs[1].id ELSE 0)
                   ELSE activeChapterId
     IN  /\ stateChapters' = chs
         /\ ShowChapter(chs, active)
  /\ tasks' = RemoveAt(tasks, i)
  /\ UNCHANGED <<stateNovelId, writeTimer, events, dbNovels, dbChapters, uuid>>
  /\ UNCHANGED notAppVars

AppNext ==
  \/ OnEditorUpdate
  \/ WriteChapterDebounced
  \/ ClickChapter
  \/ InputChapterTitle
  \/ FlushChapterTitle
  \/ BtnNewChapter
  \/ BtnDeleteChapter
  \/ Drop
  \/ ImportFileChange
  \/ \E i \in 1..Len(tasks) : ChaptersGet(i)
  \/ \E i \in 1..Len(tasks) : ChaptersPut(i)
  \/ \E i \in 1..Len(tasks) : FinishOpenChapter(i)
  \/ \E i \in 1..Len(tasks) : ChaptersToArray(i)
  \/ \E i \in 1..Len(tasks) : ChaptersPutNew(i)
  \/ \E i \in 1..Len(tasks) : PushChapter(i)
  \/ \E i \in 1..Len(tasks) : ChaptersDelete(i)
  \/ \E i \in 1..Len(tasks) : AfterDelete(i)
  \/ \E i \in 1..Len(tasks) : ReorderTransaction(i)
  \/ \E i \in 1..Len(tasks) : ImportBackupTransaction(i)
  \/ \E i \in 1..Len(tasks) : LoadFromDB(i)

AppSpec == AppInit /\ [][AppNext]_vars

\* Editing (document and title) and switching chapters only, the timer firing and the database
\* answering in the end
AutosaveNext ==
  \/ OnEditorUpdate
  \/ InputChapterTitle
  \/ FlushChapterTitle
  \/ ClickChapter
  \/ WriteChapterDebounced
  \/ \E i \in 1..Len(tasks) : ChaptersGet(i)
  \/ \E i \in 1..Len(tasks) : ChaptersPut(i)
  \/ \E i \in 1..Len(tasks) : FinishOpenChapter(i)

AutosaveSpec ==
  /\ AppInit
  /\ [][AutosaveNext]_vars
  /\ WF_vars(WriteChapterDebounced)
  /\ WF_vars(\E i \in 1..Len(tasks) : ChaptersGet(i))
  /\ WF_vars(\E i \in 1..Len(tasks) : ChaptersPut(i))
  /\ WF_vars(\E i \in 1..Len(tasks) : FinishOpenChapter(i))

\* Creating, deleting and re-ordering chapters only
OrderNext ==
  \/ BtnNewChapter
  \/ BtnDeleteChapter
  \/ Drop
  \/ \E i \in 1..Len(tasks) : ChaptersToArray(i)
  \/ \E i \in 1..Len(tasks) : ChaptersPutNew(i)
  \/ \E i \in 1..Len(tasks) : PushChapter(i)
  \/ \E i \in 1..Len(tasks) : ChaptersDelete(i)
  \/ \E i \in 1..Len(tasks) : AfterDelete(i)
  \/ \E i \in 1..Len(tasks) : ReorderTransaction(i)
  \/ \E i \in 1..Len(tasks) : ChaptersGet(i)
  \/ \E i \in 1..Len(tasks) : ChaptersPut(i)
  \/ \E i \in 1..Len(tasks) : FinishOpenChapter(i)

OrderSpec == AppInit /\ [][OrderNext]_vars

\* ------------------------------------------------------------------------
\* The service worker (sw.js) and its registration by the page (setupSW)
\* ------------------------------------------------------------------------

\* The requests the page makes before the run is cut off
MaxRequests == 2
\* The fetch events the worker answers at the same time
MaxInFlight == 2

\* What the service worker leaves alone
notSwVars == <<importVars, callVars, storeVars, appVars, dbVars>>

CACHE_NAME == "novelwriter-v1"
\* A cache left behind by an earlier version of the worker
sOldCache == "novelwriter-v0"
sIndexHtml == "./index.html"
sEsmModule == "https://esm.sh/dexie@4.0.8"
sSyncUrl == "https://sync.example/novel"
sSwJs == "./sw.js"
sOldSwJs == "./old-sw.js"

CORE_ASSETS ==
  << "./", sIndexHtml, "./styles.css", "./app.js", "./storage.js", "./editor.js", "./export.js",
     "./manifest.webmanifest", "./assets/icon-192.png", "./assets/icon-512.png" >>

\* URLSearchParams.get: <<the value of the first pair named name>>, or <<>> for null
searchParamsGet(search, name) ==
  LET at == {i \in 1..Len(search) : search[i].key = name}
  IN  IF at = {} THEN <<>> ELSE <<search[SetMin(at)].value>>

NoSwParam(value) == <<[key |-> "nosw", value |-> value]>>

\* The query strings of the page
PageSearches == {<<>>, NoSwParam("1"), NoSwParam("0"), <<[key |-> "tab", value |-> "1"]>> \o NoSwParam("1")}

Request(url, search, method, mode) == [url |-> url, search |-> search, method |-> method, mode |-> mode]

\* The requests of the page: its own document, a CDN module, the sync upload
Requests ==
  {Request(sIndexHtml, q, "GET", "navigate") : q \in {<<>>, NoSwParam("1"), NoSwParam("0")}}
    \cup {Request(sEsmModule, q, "GET", "cors") : q \in {<<>>, NoSwParam("1")}}
    \cup {Request(sSyncUrl, <<>>, "PUT", "cors")}

\* The statuses a server answers with; cache.put rejects a 206 response
Statuses == {200, 404, 206}

Response(url, status) == [url |-> url, status |-> status]

\* The key a cache files a request under (the URL with its query)
RequestKey(req) == [url |-> req.url, search |-> req.search]

\* caches.match(req, {ignoreSearch: false}): <<the entry of the first cache that has the request>>,
\* or <<>> for undefined; only a GET request matches
cachesMatch(cs, req) ==
  LET at == {i \in 1..Len(cs) : RequestKey(req) \in DOMAIN cs[i].entries}
  IN  IF req.method # "GET" \/ at = {} THEN <<>>
      ELSE <<cs[SetMin(at)].entries[RequestKey(req)]>>

\* caches.open(name): the cache is created when the storage has none of that name
cachesOpen(cs, name) ==
  IF \E i \in 1..Len(cs) : cs[i].name = name THEN cs
  ELSE Append(cs, [name |-> name, entries |-> <<>>])

\* cache.put(req, resp) on the cache called name
cachePut(cs, name, key, resp) ==
  [i \in 1..Len(cs) |->
     IF cs[i].name = name
     THEN [cs[i] EXCEPT !.entries =
             [k \in DOMAIN cs[i].entries \cup {key} |-> IF k = key THEN resp ELSE cs[i].entries[k]]]
     ELSE cs[i]]

\* cache.addAll(CORE_ASSETS), every asset answered 200
Precache == [k \in {[url |-> CORE_ASSETS[i], search |-> <<>>] : i \in 1..Len(CORE_ASSETS)} |-> Response(k.url, 200)]

CoreCache == [name |-> CACHE_NAME, entries |-> Precache]
OldCache == [name |-> sOldCache, entries |-> [k \in {[url |-> sIndexHtml, search |-> <<>>]} |-> Response(sIndexHtml, 200)]]

\* A first visit (nothing registered, perhaps a cache of an earlier version), a visit with
\* other workers registered, or a return visit with this worker active, its cache in place
\* or cleared by the user since
SwInit ==
  /\ NoImport /\ NoCall /\ NoStore /\ NoApp /\ NoDb
  /\ pageSearch \in PageSearches
  /\ swSupported \in BOOLEAN
  /\ online \in BOOLEAN
  /\ \/ /\ swState = "none"
        /\ registrations \in (IF swSupported THEN {{}, {sOldSwJs}} ELSE {{}})
        /\ cacheStorage \in (IF swSupported THEN {<<>>, <<OldCache>>} ELSE {<<>>})
     \/ /\ swSupported
        /\ swState = "activated"
        /\ registrations \in {{sSwJs}, {sSwJs, sOldSwJs}}
        /\ cacheStorage \in {<<CoreCache>>, <<>>}
  /\ setupPc = "start" /\ regs = {} /\ keys = <<>>
  /\ fetching = <<>> /\ pendingPuts = <<>> /\ lastResponse = <<>> /\ requests = 0

\* setupSW up to its first await
SetupSW ==
  /\ setupPc = "start"
  /\ setupPc' = IF searchParamsGet(pageSearch, "nosw") = <<"1">>
                THEN (IF swSupported THEN "getRegistrations" ELSE "done")
                ELSE (IF swSupported THEN "register" ELSE "done")
  /\ UNCHANGED <<pageSearch, swSupported, registrations, regs, swState, cacheStorage, online,
                 fetching, pendingPuts, lastResponse, requests, keys, notSwVars>>

\* navigator.serviceWorker.getRegistrations() resolves
GetRegistrations ==
  /\ setupPc = "getRegistrations"
  /\ regs' = registrations
  /\ setupPc' = "unregister"
  /\ UNCHANGED <<pageSearch, swSupported, registrations, swState, cacheStorage, online,
                 fetching, pendingPuts, lastResponse, requests, keys, notSwVars>>

\* Promise.all(regs.map(r => r.unregister())) resolves.  Only the first registration goes
Unregister_First ==
  /\ setupPc = "unregister"
  /\ registrations' = registrations \ (IF regs = {} THEN {} ELSE {CHOOSE r \in regs : TRUE})
  /\ setupPc' = "done"
  /\ UNCHANGED <<pageSearch, swSupported, regs, swState, cacheStorage, online,
                 fetching, pendingPuts, lastResponse, requests, keys, notSwVars>>

\* Promise.all(regs.map(r => r.unregister())) resolves
Unregister ==
  /\ setupPc = "unregister"
  /\ registrations' = registrations \ regs
  /\ setupPc' = "done"
  /\ UNCHANGED <<pageSearch, swSupported, regs, swState, cacheStorage, online,
                 fetching, pendingPuts, lastResponse, requests, keys, notSwVars>>

\* navigator.serviceWorker.register("./sw.js") settles; a rejection is caught and logged
Register ==
  /\ setupPc = "register"
  /\ \/ registrations' = registrations \cup {sSwJs}
     \/ registrations' = registrations
  /\ setupPc' = "done"
  /\ UNCHANGED <<pageSearch, swSupported, regs, swState, cacheStorage, online,
                 fetching, pendingPuts, lastResponse, requests, keys, notSwVars>>

\* The install listener: the cache is opened, addAll stores all the core assets or (offline)
\* none of them and the installation fails
Install ==
  /\ swState = "none"
  /\ sSwJs \in registrations
  /\ IF online
     THEN /\ cacheStorage' = [i \in 1..Len(cachesOpen(cacheStorage, CACHE_NAME)) |->
                                IF cachesOpen(cacheStorage, CACHE_NAME)[i].name = CACHE_NAME
                                THEN CoreCache ELSE cachesOpen(cacheStorage, CACHE_NAME)[i]]
          /\ swState' = "installed"
     ELSE /\ cacheStorage' = cachesOpen(cacheStorage, CACHE_NAME)
          /\ swState' = "none"
  /\ UNCHANGED <<pageSearch, swSupported, registrations, setupPc, regs, online,
                 fetching, pendingPuts, lastResponse, requests, keys, notSwVars>>

\* The activate listener up to its await: caches.keys() resolves with the names of the caches
CachesKeys ==
  /\ swState = "installed"
  /\ keys' = [c \in 1..Len(cacheStorage) |-> cacheStorage[c].name]
  /\ swState' = "activating"
  /\ UNCHANGED <<pageSearch, swSupported, registrations, setupPc, regs, cacheStorage, online,
                 fetching, pendingPuts, lastResponse, requests, notSwVars>>

\* The caches that are left when caches.delete(k) has resolved for every k of ks.  Every
\* cache is deleted, the worker's own too
CachesDelete_All(cs, ks) == SelectSeq(cs, LAMBDA c : FALSE)

\* The caches that are left when caches.delete(k) has resolved for every k of ks but CACHE_NAME
CachesDelete(cs, ks) ==
  SelectSeq(cs, LAMBDA c : ~(c.name # CACHE_NAME /\ \E k \in 1..Len(ks) : ks[k] = c.name))

\* The activate listener from its await: the deletions resolve and the worker is active
Activate ==
  /\ swState = "activating"
  /\ cacheStorage' = CachesDelete(cacheStorage, keys)
  /\ swState' = "activated"
  /\ UNCHANGED <<pageSearch, swSupported, registrations, setupPc, regs, online,
                 fetching, pendingPuts, lastResponse, requests, keys, notSwVars>>

\* How a request was answered: by the worker from a cache ("cache"), from the network
\* ("network"), with the cached shell ("shell"), with the fetch error ("error"), or by the
\* browser itself because the worker did not call respondWith ("browser")
Answer(req, source, response) == <<[req |-> req, source |-> source, response |-> response]>>

\* The fetch listener up to respondWith
FetchEvent ==
  /\ swState = "activated"
  /\ requests < MaxRequests
  /\ Len(fetching) < MaxInFlight
  /\ requests' = requests + 1
  /\ \E req \in Requests :
       IF searchParamsGet(req.search, "nosw") = <<"1">>
       THEN /\ lastResponse' = Answer(req, "browser", <<>>)
            /\ UNCHANGED fetching
       ELSE /\ fetching' = Append(fetching, [req |-> req, pc |-> "match"])
            /\ UNCHANGED lastResponse
  /\ UNCHANGED <<pageSearch, swSupported, registrations, setupPc, regs, swState, cacheStorage,
                 online, pendingPuts, keys, notSwVars>>

\* caches.match resolves.  The network is asked first whenever it is reachable
CachesMatch_NetworkFirst(i) ==
  /\ fetching[i].pc = "match"
  /\ IF cachesMatch(cacheStorage, fetching[i].req) # <<>> /\ ~online
     THEN /\ lastResponse' = Answer(fetching[i].req, "cache", cachesMatch(cacheStorage, fetching[i].req))
          /\ fetching' = RemoveAt(fetching, i)
     ELSE /\ fetching' = [fetching EXCEPT ![i].pc = "fetch"]
          /\ UNCHANGED lastResponse
  /\ UNCHANGED <<pageSearch, swSupported, registrations, setupPc, regs, swState, cacheStorage,
                 online, pendingPuts, requests, keys, notSwVars>>

\* caches.match resolves: a hit is the answer, a miss goes on to the network
CachesMatch(i) ==
  /\ fetching[i].pc = "match"
  /\ IF cachesMatch(cacheStorage, fetching[i].req) # <<>>
     THEN /\ lastResponse' = Answer(fetching[i].req, "cache", cachesMatch(cacheStorage, fetching[i].req))
          /\ fetching' = RemoveAt(fetching, i)
     ELSE /\ fetching' = [fetching EXCEPT ![i].pc = "fetch"]
          /\ UNCHANGED lastResponse
  /\ UNCHANGED <<pageSearch, swSupported, registrations, setupPc, regs, swState, cacheStorage,
                 online, pendingPuts, requests, keys, notSwVars>>

\* Whether the response to req is handed to cache.put.  Every response is
PutsResponse_Always(req) == TRUE

\* Whether the response to req is handed to cache.put
PutsResponse(req) == req.method = "GET"

\* Whether a failed fetch of req is answered with the cached shell.  Every request is
ShellFallback_Always(req) == TRUE

\* Whether a failed fetch of req is answered with the cached shell
ShellFallback(req) == req.mode = "navigate"

\* fetch(req) settles.  Resolved: a GET response is handed to cache.put, which is not awaited,
\* and the response is the answer.  Rejected: a navigation gets the cached shell if there is
\* one, anything else the error
NetworkFetch(i) ==
  /\ fetching[i].pc = "fetch"
  /\ fetching' = RemoveAt(fetching, i)
  /\ IF online
     THEN \E status \in Statuses :
            LET req == fetching[i].req
                fresh == Response(req.url, status)
            IN  /\ IF PutsResponse(req)
                   THEN /\ cacheStorage' = cachesOpen(cacheStorage, CACHE_NAME)
                        /\ pendingPuts' = Append(pendingPuts, [req |-> req, response |-> fresh])
                   ELSE UNCHANGED <<cacheStorage, pendingPuts>>
                /\ lastResponse' = Answer(req, "network", <<fresh>>)
     ELSE LET req == fetching[i].req
              shell == cachesMatch(cacheStorage, Request(sIndexHtml, <<>>, "GET", "navigate"))
          IN  /\ lastResponse' = IF ShellFallback(req) /\ shell # <<>>
                                 THEN Answer(req, "shell", shell)
                                 ELSE Answer(req, "error", <<>>)
              /\ UNCHANGED <<cacheStorage, pendingPuts>>
  /\ UNCHANGED <<pageSearch, swSupported, registrations, setupPc, regs, swState, online,
                 requests, keys, notSwVars>>

\* A cache.put settles: the response is stored, or the rejection (a 206 response) is swallowed
CachePutSettles(i) ==
  /\ cacheStorage' = IF pendingPuts[i].response.status = 206 THEN cacheStorage
                     ELSE cachePut(cacheStorage, CACHE_NAME, RequestKey(pendingPuts[i].req),
                                   pendingPuts[i].response)
  /\ pendingPuts' = RemoveAt(pendingPuts, i)
  /\ UNCHANGED <<pageSearch, swSupported, registrations, setupPc, regs, swState, online,
                 fetching, lastResponse, requests, keys, notSwVars>>

\* The connection comes or goes
ConnectionChanges ==
  /\ online' = ~online
  /\ UNCHANGED <<pageSearch, swSupported, registrations, setupPc, regs, swState, cacheStorage,
                 fetching, pendingPuts, lastResponse, requests, keys, notSwVars>>

SwNext ==
  \/ SetupSW
  \/ GetRegistrations
  \/ Unregister
  \/ Register
  \/ Install
  \/ CachesKeys
  \/ Activate
  \/ FetchEvent
  \/ \E i \in 1..Len(fetching) : CachesMatch(i)
  \/ \E i \in 1..Len(fetching) : NetworkFetch(i)
  \/ \E i \in 1..Len(pendingPuts) : CachePutSettles(i)
  \/ ConnectionChanges

SwSpec == SwInit /\ [][SwNext]_vars

\* ------------------------------------------------------------------------
\* storage.js: ensureDefaultNovel, exportBackup, importBackup and resetAllData, called one
\* after the other
\* ------------------------------------------------------------------------
\* The calls before the run is cut off
MaxCalls == 3

\* What the calls leave alone
notDbVars == <<importVars, callVars, importer, parsed, toDelete, created, newIds, before, ipc,
               appVars, swVars>>

sOther == "other"
\* "Start writing" and the ellipsis character U+2026, written "..." here
sStartWriting == <<"S","t","a","r","t"," ","w","r","i","t","i","n","g","...">>

\* ensureDefaultNovel seeding whenever the novel has no chapter
SeedNeeded_WhenNoChapters(novels, chs) ==
  \/ sDefault \notin DOMAIN novels
  \/ ~\E i \in DOMAIN chs : chs[i].novelId = sDefault

\* ensureDefaultNovel: existing = await db.novels.get("default"); if (existing) return existing
SeedNeeded(novels, chs) == sDefault \notin DOMAIN novels

\* The seed chapter of ensureDefaultNovel
SeedChapter ==
  [novelId |-> sDefault, order |-> 1, title |-> ChapterLabel(1),
   content |-> [type |-> "doc",
                content |-> <<[type |-> "paragraph", content |-> <<TextNode(sStartWriting)>>]>>]]

\* exportBackup writing another schema version than importBackup reads
exportBackup_Version2(novels, chs, novelId) ==
  [schemaVersion |-> 2,
   novel |-> IF novelId \in DOMAIN novels
             THEN <<[id |-> novelId, title |-> novels[novelId].title]>> ELSE <<>>,
   chapters |-> <<[k \in 1..Len(getNovel(chs, novelId)) |->
                     [id |-> getNovel(chs, novelId)[k], novelId |-> novelId,
                      order |-> chs[getNovel(chs, novelId)[k]].order,
                      title |-> chs[getNovel(chs, novelId)[k]].title,
                      content |-> chs[getNovel(chs, novelId)[k]].content]]>>]

\* exportBackup: getNovel(novelId) with schemaVersion 1 (exportedAt, a time stamp, left out),
\* as JSON.stringify and JSON.parse hand it on: a novel that is undefined is no member
exportBackup(novels, chs, novelId) ==
  [schemaVersion |-> 1,
   novel |-> IF novelId \in DOMAIN novels
             THEN <<[id |-> novelId, title |-> novels[novelId].title]>> ELSE <<>>,
   chapters |-> <<[k \in 1..Len(getNovel(chs, novelId)) |->
                     [id |-> getNovel(chs, novelId)[k], novelId |-> novelId,
                      order |-> chs[getNovel(chs, novelId)[k]].order,
                      title |-> chs[getNovel(chs, novelId)[k]].title,
                      content |-> chs[getNovel(chs, novelId)[k]].content]]>>]

\* The files given to #importFile: backups of the novel with and without a chapter, of
\* another version, without novel, with a novel without id, with chapters that are no array,
\* and a backup of another novel whose chapter has the id of a stored one
BackupFiles ==
  Backups
    \cup { [schemaVersion |-> 1, novel |-> n, chapters |-> <<<<>>>>] :
             n \in {<<>>, <<[id |-> "", title |-> tMyNovel]>>} }
    \cup { [schemaVersion |-> 1, novel |-> <<[id |-> sDefault, title |-> tMyNovel]>>, chapters |-> <<>>] }
    \cup { [schemaVersion |-> 1, novel |-> <<[id |-> sOther, title |-> tMyNovel]>>,
            chapters |-> <<<<[id |-> 1, order |-> 1, title |-> tIntro, content |-> textToDoc(tDawn)]>>>>] }

Database == [novels |-> dbNovels, chapters |-> dbChapters]

\* A new database, or one with the novel, up to MaxStored chapters and perhaps another novel
DbInit ==
  /\ NoImport /\ NoCall /\ NoApp /\ NoSw
  /\ importer = "none" /\ parsed = <<>> /\ toDelete = <<>> /\ created = <<>>
  /\ newIds = <<>> /\ before = <<>> /\ ipc = "none"
  /\ \/ dbNovels = <<>> /\ dbChapters = <<>> /\ uuid = 0
     \/ \E k \in 0..MaxStored, other \in BOOLEAN :
          /\ dbNovels = [n \in {sDefault} \cup (IF other THEN {sOther} ELSE {}) |->
                           [title |-> sUntitledNovel]]
          /\ dbChapters = StoredChapters(k, other)
          /\ uuid = Len(StoredChapters(k, other))
  /\ storageCall = <<>> /\ backupFile = <<>> /\ storageCalls = 0

StorageCall(op, arg, value) ==
  <<[op |-> op, arg |-> arg, returned |-> value, before |-> Database]>>

\* await ensureDefaultNovel()
CallEnsureDefaultNovel ==
  /\ storageCalls < MaxCalls
  /\ storageCalls' = storageCalls + 1
  /\ IF SeedNeeded(dbNovels, dbChapters)
     THEN /\ dbNovels' = [n \in DOMAIN dbNovels \cup {sDefault} |->
                            IF n = sDefault THEN [title |-> sUntitledNovel] ELSE dbNovels[n]]
          /\ uuid' = uuid + 1
          /\ dbChapters' = [i \in DOMAIN dbChapters \cup {uuid'} |->
                              IF i = uuid' THEN SeedChapter ELSE dbChapters[i]]
          /\ storageCall' = StorageCall("ensureDefaultNovel", <<>>,
                                        <<[id |-> sDefault, title |-> sUntitledNovel]>>)
     ELSE /\ UNCHANGED <<dbNovels, dbChapters, uuid>>
          /\ storageCall' = StorageCall("ensureDefaultNovel", <<>>,
                                        <<[id |-> sDefault, title |-> dbNovels[sDefault].title]>>)
  /\ UNCHANGED <<backupFile, notDbVars>>

\* payload = await exportBackup(novelId), downloaded as a JSON file
CallExportBackup ==
  /\ storageCalls < MaxCalls
  /\ storageCalls' = storageCalls + 1
  /\ \E novelId \in {sDefault, sOther} :
       /\ backupFile' = <<[payload |-> exportBackup(dbNovels, dbChapters, novelId),
                           novelId |-> novelId, taken |-> Database]>>
       /\ storageCall' = StorageCall("exportBackup", <<novelId>>,
                                     <<exportBackup(dbNovels, dbChapters, novelId)>>)
  /\ UNCHANGED <<dbNovels, dbChapters, uuid, notDbVars>>

\* await importBackup(JSON.parse(text)): the throw, or the transaction
CallImportBackup ==
  /\ storageCalls < MaxCalls
  /\ storageCalls' = storageCalls + 1
  /\ \E payload \in BackupFiles \cup {backupFile[k].payload : k \in 1..Len(backupFile)} :
       IF ValidBackup(payload) = TRUE
       THEN /\ dbNovels' = importBackupNovels(dbNovels, payload)
            /\ dbChapters' = importBackupChapters(dbChapters, payload)
            /\ uuid' = SetMax({uuid} \cup DOMAIN dbChapters')
            /\ storageCall' = StorageCall("importBackup", <<payload>>, "true")
       ELSE /\ UNCHANGED <<dbNovels, dbChapters, uuid>>
            /\ storageCall' = StorageCall("importBackup", <<payload>>, "throw")
  /\ UNCHANGED <<backupFile, notDbVars>>

\* await resetAllData(): db.delete(), db.open()
CallResetAllData ==
  /\ storageCalls < MaxCalls
  /\ storageCalls' = storageCalls + 1
  /\ dbNovels' = <<>> /\ dbChapters' = <<>>
  /\ storageCall' = StorageCall("resetAllData", <<>>, <<>>)
  /\ UNCHANGED <<uuid, backupFile, notDbVars>>

DbNext ==
  \/ CallEnsureDefaultNovel
  \/ CallExportBackup
  \/ CallImportBackup
  \/ CallResetAllData

DbSpec == DbInit /\ [][DbNext]_vars

\* ------------------------------------------------------------------------
\* Vocabulary of the properties
\* ------------------------------------------------------------------------
\* A paragraph whose text is whitespace only
IsBlank(p) == \A k \in 1..Len(p.text) : p.text[k] \in WS
NonBlank(ps) == SelectSeq(ps, LAMBDA p : ~IsBlank(p))
IsHeading(p) == isHeadingLike(p.text, p.style)
Texts(ps) == [k \in 1..Len(ps) |-> ps[k].text]
Returned == result[1]
EmptyDoc == [type |-> "doc", content |-> <<[type |-> "paragraph"]>>]
sChapter1 == <<"C","h","a","p","t","e","r"," ","1">>
EndsSentence(t) == t # <<>> /\ t[Len(t)] \in {".", "!", "?"}

\* The elements of a set of numbers, ascending
RECURSIVE Ascending(_)
Ascending(S) == IF S = {} THEN <<>> ELSE <<SetMin(S)>> \o Ascending(S \ {SetMin(S)})

\* base, then ": " and the normalized text of each of subs
RECURSIVE WithSubtitles(_, _)
WithSubtitles(base, subs) ==
  IF subs = <<>> THEN base
  ELSE WithSubtitles(base \o <<":", " ">> \o clean(subs[1]), Tail(subs))

\* ------------------------------------------------------------------------
\* C1: for every input, the empty sequence and sequences of blank paragraphs
\* included, what splitFromParagraphs returns has at least one chapter.
\* ------------------------------------------------------------------------
C1_AtLeastOneChapter == pc = "done" => Len(Returned.chapters) >= 1

C1_Witness ==
  /\ pc = "done"
  /\ Len(paragraphs) >= 2
  /\ \A k \in 1..Len(paragraphs) : IsBlank(paragraphs[k])
  /\ Len(Returned.chapters) = 1

\* ------------------------------------------------------------------------
\* C2: with no heading-like paragraph in the input the result is exactly one
\* chapter, titled "Chapter 1", whose body is the raw text of all non-blank
\* paragraphs in order, separated by blank lines.
\* ------------------------------------------------------------------------
C2_NoHeadingsOneChapter ==
  (pc = "done" /\ \A k \in 1..Len(paragraphs) : ~IsHeading(paragraphs[k]))
    => /\ Len(Returned.chapters) = 1
       /\ Returned.chapters[1].title = sChapter1
       /\ Returned.chapters[1].doc =
            textToDoc(Join(Texts(NonBlank(paragraphs)), <<"\n", "\n">>))

\* ------------------------------------------------------------------------
\* C3: in a draft opened by a heading a paragraph is merged into the title only
\* if it is the first paragraph after that heading, so a title carries at most
\* one subtitle.  (A step that changes the title of the open draft without
\* committing a chapter is a subtitle merge.)
\* ------------------------------------------------------------------------
SubtitleMerged ==
  /\ pc = "loop" /\ current # <<>> /\ current' # <<>>
  /\ chapters' = chapters
  /\ current'[1].title # current[1].title

C3_SubtitleAtMostOnce ==
  [][(SubtitleMerged /\ \E j \in 1..(idx - 1) : IsHeading(paras[j]))
       => IsHeading(paras[idx - 1])]_vars

\* ------------------------------------------------------------------------
\* C4: in the main loop a non-heading paragraph is merged into the open draft's
\* title (normalized title, ": ", normalized text) exactly when the draft has no
\* body paragraph, its normalized title matches the chapter, part or
\* front-matter pattern and the normalized text is at most 60 long and does not
\* end in '.', '!' or '?'; otherwise its raw text is appended to the body and
\* the title is unchanged.
\* ------------------------------------------------------------------------
C4_SubtitleExactlyWhen ==
  [][(pc = "loop" /\ idx <= Len(paras) /\ current # <<>> /\ idx' = idx + 1
        /\ ~IsHeading(paras[idx]))
      => LET d == current[1]
             t == paras[idx].text
         IN  IF /\ d.body = <<>>
                /\ StructuralPattern(clean(d.title))
                /\ Len(clean(t)) <= 60
                /\ ~EndsSentence(clean(t))
             THEN current' = <<[title |-> clean(d.title) \o <<":", " ">> \o clean(t),
                                body |-> d.body]>>
             ELSE current' = <<[title |-> d.title, body |-> Append(d.body, t)]>>]_vars

C4_Witness ==
  /\ pc = "loop" /\ idx = 3 /\ current # <<>>
  /\ paras[1].text = tPartTwo /\ paras[2].text = tArrival
  /\ current[1] = [title |-> <<"P","a","r","t"," ","t","w","o",":"," ">> \o tArrival,
                   body |-> <<>>]

\* ------------------------------------------------------------------------
\* C5: only the first non-blank paragraph can become the novel title: it is
\* consumed exactly when its normalized text is at most 80 long, matches none
\* of the three patterns and its style is 'title' or matches 'heading 1',
\* case-insensitively; otherwise the title is fallbackTitle and the stream
\* keeps every non-blank paragraph.
\* ------------------------------------------------------------------------
C5_TitleFromFirstParagraphOnly ==
  pc \in {"loop", "fallback", "cleanup", "done"}
    => LET nb == NonBlank(paragraphs)
           t == clean(nb[1].text)
           st == toLowerCase(nb[1].style)
       IN  /\ IF /\ nb # <<>>
                 /\ Len(t) <= 80
                 /\ ~StructuralPattern(t)
                 /\ (st = <<"t","i","t","l","e">> \/ HeadingStyleRE(st, {"1"}))
              THEN novelTitle = t /\ paras = Tail(nb)
              ELSE novelTitle = fallbackTitle[1] /\ paras = nb
           /\ pc = "done" => Returned.novelTitle = novelTitle

C5_Witness ==
  /\ pc = "done"
  /\ Len(paragraphs) = 3
  /\ paragraphs[1] = Para(tPartTwo, stHeading1)
  /\ paragraphs[2] = Para(tIntro, stHeading1)
  /\ Returned.novelTitle = filenameToTitle(fManuscript)
  /\ Len(Returned.chapters) >= 2

\* ------------------------------------------------------------------------
\* C6: a heading-like paragraph commits the open draft and opens a draft titled
\* with its text; text before the first heading opens one draft with the
\* synthetic title "Chapter 1"; so for a non-empty stream the number of
\* chapters is the number of heading-like paragraphs, plus one if the first
\* paragraph is not heading-like.
\* ------------------------------------------------------------------------
C6_ChapterPerHeading ==
  [][/\ (pc = "loop" /\ idx <= Len(paras) /\ IsHeading(paras[idx]))
          => /\ Len(chapters') = Len(chapters) + (IF current = <<>> THEN 0 ELSE 1)
             /\ current' = <<[title |-> paras[idx].text, body |-> <<>>]>>
     /\ (pc = "loop" /\ idx <= Len(paras) /\ ~IsHeading(paras[idx]) /\ current = <<>>)
          => /\ \A k \in 1..idx : ~IsHeading(paras[k])
             /\ current' = <<[title |-> sChapter1, body |-> <<>>]>>
             /\ chapters' = <<>>
     /\ (pc' = "done" /\ paras # <<>>)
          => Len(Returned'.chapters) =
               Cardinality({k \in 1..Len(paras) : IsHeading(paras[k])})
                 + (IF IsHeading(paras[1]) THEN 0 ELSE 1)]_vars

C6_Witness ==
  /\ pc = "done"
  /\ Len(paras) = 3
  /\ ~IsHeading(paras[1]) /\ IsHeading(paras[2]) /\ IsHeading(paras[3])
  /\ Len(Returned.chapters) = 3

\* ------------------------------------------------------------------------
\* C7: the result is in input order.  The k-th chapter belongs to the k-th
\* chapter start of the stream (position 0 standing for the synthetic first
\* chapter); its title is that heading followed by a prefix of the paragraphs
\* up to the next start, and its body is the rest of them, in order.
\* ------------------------------------------------------------------------
ChapterStarts(ps) ==
  Ascending({k \in 1..Len(ps) : IsHeading(ps[k])}
              \cup (IF ps # <<>> /\ ~IsHeading(ps[1]) THEN {0} ELSE {}))

C7_InputOrder ==
  (pc = "done" /\ paras # <<>>)
    => LET starts == ChapterStarts(paras)
           chs == Returned.chapters
       IN  /\ Len(chs) = Len(starts)
           /\ \A j \in 1..Len(starts) :
                LET from == starts[j] + 1
                    to == IF j < Len(starts) THEN starts[j+1] - 1 ELSE Len(paras)
                    seg == Texts(SubSeq(paras, from, to))
                    head == IF starts[j] = 0 THEN sChapter1 ELSE clean(paras[starts[j]].text)
                IN  \E m \in 0..Len(seg) :
                      /\ chs[j].title = WithSubtitles(head, SubSeq(seg, 1, m))
                      /\ chs[j].doc =
                           textToDoc(trim(Join(SubSeq(seg, m + 1, Len(seg)), <<"\n", "\n">>)))

C7_Witness ==
  /\ pc = "done"
  /\ Len(paras) = 3
  /\ ~IsHeading(paras[1]) /\ ~IsHeading(paras[2]) /\ IsHeading(paras[3])
  /\ paras[1].text # paras[2].text
  /\ Len(Returned.chapters) = 2
  /\ Len(Returned.chapters[1].doc.content) = 2

\* ------------------------------------------------------------------------
\* C8: every returned chapter has a title that is not blank; a title that is
\* blank after normalization is replaced by "Chapter " and the 1-based index.
\* ------------------------------------------------------------------------
C8_TitlesNotBlank ==
  pc = "done"
    => \A k \in 1..Len(Returned.chapters) :
         /\ ~IsBlank([text |-> Returned.chapters[k].title])
         /\ Cleaned([j \in 1..k |-> [title |-> <<" ", "\t">>, doc |-> EmptyDoc]])[k].title
              = <<"C","h","a","p","t","e","r"," ">> \o NatToStr(k)

C8_Witness ==
  /\ pc = "done"
  /\ Len(Returned.chapters) = 3
  /\ Returned.chapters[2].title = <<"P","a","r","t"," ","t","w","o">>

\* ------------------------------------------------------------------------
\* C9: blank paragraphs, whatever their style, have no effect: the result for
\* an input is the result for the input without its blank paragraphs.
\* ------------------------------------------------------------------------
C9_BlankParagraphsIgnored ==
  pc = "done" => Returned = splitFromParagraphs(NonBlank(paragraphs), fallbackTitle[1])

C9_Witness ==
  /\ pc = "done"
  /\ Len(paragraphs) = 3
  /\ IsBlank(paragraphs[1]) /\ paragraphs[1].style = stTitle
  /\ IsBlank(paragraphs[3])
  /\ Returned.novelTitle = tMyNovel

\* ------------------------------------------------------------------------
\* C10: with no usable paragraph the function returns fallbackTitle and one
\* chapter "Chapter 1" whose document is a doc node with one empty paragraph.
\* ------------------------------------------------------------------------
C10_EmptyInput ==
  (pc = "done" /\ \A k \in 1..Len(paragraphs) : IsBlank(paragraphs[k]))
    => Returned = [novelTitle |-> fallbackTitle[1],
                   chapters |-> <<[title |-> sChapter1, doc |-> EmptyDoc]>>]

C10_Witness ==
  /\ pc = "done"
  /\ paragraphs = <<>>
  /\ Returned.novelTitle = sUntitledNovel

\* ------------------------------------------------------------------------
\* C17: parseImportFile on a file whose name extension is neither "rtf" nor
\* "docx" and whose media type contains neither "rtf" nor "officedocument"
\* fails before a decoder or the segmentation is invoked, and yields no
\* partial result: once it has acted, it is in its error exit, no decoder was
\* called, nothing of the segmentation was computed and there is no result.
\* ------------------------------------------------------------------------
Unsupported ==
  /\ FileExt(fileName) \notin {sRtf, sDocx}
  /\ ~Includes(fileType, sRtf)
  /\ ~Includes(fileType, sOfficeDocument)

C17_UnsupportedFailsFast ==
  (Unsupported /\ pc # "parseImportFile") =>
     /\ pc = "error"
     /\ decoder = "none"
     /\ paras = <<>> /\ chapters = <<>> /\ current = <<>> /\ novelTitle = <<>>
     /\ result = <<>>

\* A text file declared as plain text was handed over and rejected
C17_Witness ==
  /\ fileName = fNotesTxt /\ fileType = mtPlain
  /\ pc = "error" /\ result = <<>>

\* ------------------------------------------------------------------------
\* Vocabulary of the properties of single calls
\* ------------------------------------------------------------------------
Called(f) == callee = f /\ returned # <<>>
Letters(t) == Cardinality({k \in 1..Len(t) : t[k] \in UpperCs})
IsDigits(tok) == \A k \in 1..Len(tok) : tok[k] \in DigitCs
IsRomanWord(tok) == \A k \in 1..Len(tok) : LowerC(tok[k]) \in RomanCs

\* The first position of s from p on that is not whitespace (Len(s)+1 if none)
SkipSpace(s, p) == SetMin({k \in p..Len(s) : s[k] \notin WS} \cup {Len(s) + 1})
\* The last position of the run of word characters of s that starts at p
WordEnd(s, p) == SetMin({k \in p..Len(s) : s[k] \notin WordCs} \cup {Len(s) + 1}) - 1

\* Keyword, whitespace, then a whole word that is a number of one of the three kinds
KeywordThenNumber(t, kws, words) ==
  \E kw \in kws :
    /\ StartsWithCI(t, kw)
    /\ LET p == SkipSpace(t, Len(kw) + 1)
           tok == SubSeq(t, p, WordEnd(t, p))
       IN  /\ p > Len(kw) + 1
           /\ tok # <<>>
           /\ (IsDigits(tok) \/ IsRomanWord(tok) \/ toLowerCase(tok) \in words)

\* ------------------------------------------------------------------------
\* C11 (as claimed): isHeadingLike(text, styleHint) is true exactly when the
\* normalized text is non-empty and one of five rules holds, the first being
\* that the style hint is "heading 1" or "heading 2" (with or without the
\* space, in any case) or "title".
\* ------------------------------------------------------------------------
StyleIsHeading(style) ==
  toLowerCase(style) \in { sHeading \o <<" ","1">>, sHeading \o <<"1">>,
                           sHeading \o <<" ","2">>, sHeading \o <<"2">>, sTitle }

C11_StyleIsHeading ==
  Called("isHeadingLike") =>
    LET t == clean(args.text)
    IN  returned[1] = (/\ t # <<>>
                       /\ \/ StyleIsHeading(args.style)
                          \/ CHAPTER_RE(t) \/ PART_RE(t) \/ FRONT_RE(t)
                          \/ isAllCapsShort(t))

\* ------------------------------------------------------------------------
\* C11 (amended): isHeadingLike(text, styleHint) is true exactly when the
\* normalized text is non-empty and one of five rules holds: the style hint,
\* lower-cased, contains "heading", any whitespace, then 1 or 2, or equals
\* "title"; the chapter pattern; the part pattern; the front/back-matter
\* pattern; the all-caps heuristic. Blank text is false with any style.
\* ------------------------------------------------------------------------
StyleContainsHeading(style) ==
  \/ toLowerCase(style) = sTitle
  \/ \E a \in 1..Len(style), b \in 1..Len(style), d \in {"1", "2"} :
       /\ a + Len(sHeading) <= b
       /\ toLowerCase(SubSeq(style, a, a + Len(sHeading) - 1)) = sHeading
       /\ \A k \in (a + Len(sHeading))..(b - 1) : style[k] \in WS
       /\ style[b] = d

C11_HeadingExactlyWhen ==
  Called("isHeadingLike") =>
    LET t == clean(args.text)
    IN  /\ returned[1] = (/\ t # <<>>
                          /\ \/ StyleContainsHeading(args.style)
                             \/ CHAPTER_RE(t) \/ PART_RE(t) \/ FRONT_RE(t)
                             \/ isAllCapsShort(t))
        /\ (\A k \in 1..Len(args.text) : args.text[k] \in WS) => returned[1] = FALSE

\* Whitespace with the Title style was classified, and is no heading
C11_Witness ==
  /\ Called("isHeadingLike")
  /\ args = Para(tSpaces, stTitle)
  /\ returned = <<FALSE>>

\* ------------------------------------------------------------------------
\* C12: isAllCapsShort(s) is true exactly when the whitespace-normalized s
\* has at most 44 characters, at least 6 letters A-Z and no lowercase
\* letter; "THE END" is true, "A" and "the end" are false.
\* ------------------------------------------------------------------------
C12_AllCapsExactlyWhen ==
  Called("isAllCapsShort") =>
    LET t == clean(args)
    IN  /\ returned[1] = (/\ Len(t) <= 44
                          /\ Letters(t) >= 6
                          /\ \A k \in 1..Len(t) : t[k] \notin LowerCs)
        /\ args = tTheEnd => returned[1] = TRUE
        /\ args \in {<<"A">>, tLowerEnd} => returned[1] = FALSE

\* 44 characters after normalization, 45 before it: six capitals, 38 digits
C12_Witness ==
  /\ Called("isAllCapsShort")
  /\ args = <<" ">> \o Rep("A", 6) \o Rep("1", 38)
  /\ returned = <<TRUE>>

\* ------------------------------------------------------------------------
\* C13 (as claimed): a normalized text matches the chapter rule exactly when
\* it begins, in any case, with "chapter" or "chap.", then whitespace, then a
\* token that is all digits, made of the letters i,v,x,l,c,d,m only, or a
\* number word one..twelve, ending at a word boundary; the part rule is the
\* same with "part" and one..ten.
\* ------------------------------------------------------------------------
C13_ChapterOrChapDot ==
  /\ Called("CHAPTER_RE") =>
       returned[1] = KeywordThenNumber(args, { <<"c","h","a","p","t","e","r">>,
                                               <<"c","h","a","p",".">> }, OneToTwelve)
  /\ Called("PART_RE") =>
       returned[1] = KeywordThenNumber(args, { <<"p","a","r","t">> }, OneToTen)

\* ------------------------------------------------------------------------
\* C13 (amended): the chapter rule matches exactly when the text begins, in
\* any case, with "chapter", "chap." or "chap" (the dot is optional), then
\* whitespace, then a token that is all digits, made of the letters
\* i,v,x,l,c,d,m only, or a number word one..twelve, ending at a word
\* boundary; the part rule is the same with "part" and one..ten.
\* ------------------------------------------------------------------------
C13_PatternsExactlyWhen ==
  /\ Called("CHAPTER_RE") =>
       returned[1] = KeywordThenNumber(args, { <<"c","h","a","p","t","e","r">>,
                                               <<"c","h","a","p",".">>,
                                               <<"c","h","a","p">> }, OneToTwelve)
  /\ Called("PART_RE") =>
       returned[1] = KeywordThenNumber(args, { <<"p","a","r","t">> }, OneToTen)

\* "chap 1:" was tested against the chapter pattern and matched
C13_Witness ==
  /\ Called("CHAPTER_RE")
  /\ args = <<"c","h","a","p"," ","1",":">>
  /\ returned = <<TRUE>>

\* ------------------------------------------------------------------------
\* C14: every document textToDoc returns, for the empty string and for
\* whitespace-only text too, is a doc node with at least one block-level
\* node, each a paragraph.
\* ------------------------------------------------------------------------
C14_DocHasBlock ==
  Called("textToDoc") =>
    /\ returned[1].type = "doc"
    /\ Len(returned[1].content) >= 1
    /\ \A k \in 1..Len(returned[1].content) : returned[1].content[k].type = "paragraph"

\* Whitespace-only text was compiled, to the single empty paragraph
C14_Witness ==
  /\ Called("textToDoc")
  /\ args = <<" ", "\n", "\r", " ">>
  /\ returned[1].content = <<EmptyParagraph>>

\* ------------------------------------------------------------------------
\* C15: textToDoc takes CRLF and CR as one newline and emits one paragraph
\* per maximal block between runs of two or more newlines that is non-empty
\* after trimming, in order; a block of k lines gives k text runs with k-1
\* hardBreaks between them, strictly alternating, no text run empty.
\* ------------------------------------------------------------------------
\* The lines of a text: CRLF, CR and LF each end a line
LinesOf(text) == SplitLines(NormalizeNewlines(text))

\* The blocks of lines k.. : an empty line ends the block collected in acc
RECURSIVE BlocksFrom(_, _, _)
BlocksFrom(lines, k, acc) ==
  LET done == IF trim(acc) # <<>> THEN <<trim(acc)>> ELSE <<>>
  IN  IF k > Len(lines) THEN done
      ELSE IF lines[k] = <<>> THEN done \o BlocksFrom(lines, k + 1, <<>>)
      ELSE BlocksFrom(lines, k + 1, IF acc = <<>> THEN lines[k] ELSE acc \o <<"\n">> \o lines[k])

ExpectedBlocks(text) == BlocksFrom(LinesOf(text), 1, <<>>)

\* node is a paragraph whose content is the lines of block, a hardBreak between each two
ParagraphOf(node, block) ==
  LET lines == SplitLines(block)
  IN  /\ node.type = "paragraph"
      /\ Len(node.content) = 2 * Len(lines) - 1
      /\ \A j \in 1..Len(node.content) :
           IF j % 2 = 1
           THEN node.content[j] = TextNode(lines[(j + 1) \div 2]) /\ node.content[j].text # <<>>
           ELSE node.content[j] = HardBreak

C15_ParagraphPerBlock ==
  Called("textToDoc") =>
    LET blocks == ExpectedBlocks(args)
        withContent == SelectSeq(returned[1].content, LAMBDA n : "content" \in DOMAIN n)
    IN  /\ Len(withContent) = Len(blocks)
        /\ blocks # <<>> => Len(returned[1].content) = Len(blocks)
        /\ \A k \in 1..Len(withContent) : ParagraphOf(withContent[k], blocks[k])

\* A CRLF inside a block: one paragraph of two text runs around one hardBreak
C15_Witness ==
  /\ Called("textToDoc")
  /\ args = <<"a", "\r", "\n", "a">>
  /\ returned[1].content =
       << [type |-> "paragraph",
           content |-> <<TextNode(<<"a">>), HardBreak, TextNode(<<"a">>)>>] >>

\* ------------------------------------------------------------------------
\* C16: for every body text, editorToPlainText(textToDoc(bodyText)) with its
\* whitespace runs collapsed equals bodyText with its whitespace runs
\* collapsed and trimmed.
\* ------------------------------------------------------------------------
C16_RoundTrip ==
  (callee = "textToDoc" /\ plainText # <<>>) =>
     CollapseWhitespace(plainText[1]) = trim(CollapseWhitespace(args))

\* Two blocks went through both functions and came back on two lines
C16_Witness ==
  /\ callee = "textToDoc"
  /\ args = <<" ", "a", "\n", "\n", "a">>
  /\ plainText = << <<"a", "\n", "a">> >>

\* ------------------------------------------------------------------------
\* C18: every paragraph record parseDOCX produces has non-blank text and a
\* style hint that is one of "", "Heading 1", "Heading 2", "Title", whatever
\* the style identifier of the paragraph (Normal, Heading3, Subtitle, ...).
\* ------------------------------------------------------------------------
C18_StyleHintClosed ==
  Called("parseDOCX") =>
    \A k \in 1..Len(returned[1]) :
      /\ \E j \in 1..Len(returned[1][k].text) : returned[1][k].text[j] \notin WS
      /\ returned[1][k].style \in { <<>>, stHeading1, stHeading2, stTitle }

\* ------------------------------------------------------------------------
\* C19: a Word/RTF import is all-or-nothing: when it has failed, at whatever
\* step (decoding, segmentation, a storage operation of the replacement),
\* the stored novel title and the stored chapters are what they were before
\* the import started.
\* ------------------------------------------------------------------------
C19_AllOrNothing ==
  ipc = "failed" => (dbNovels = before.novels /\ dbChapters = before.chapters)

\* ------------------------------------------------------------------------
\* C20: after a successful import of n >= 1 chapters, by either routine, the
\* stored chapters of the novel are exactly the n imported ones and none of
\* the previous ones, with fresh identifiers, orders 1..n in import order,
\* each with the imported title and document, and the stored novel title is
\* the imported one; an import with no chapter is rejected and nothing stored
\* changes.
\* ------------------------------------------------------------------------
StoredOf(novelId) == {i \in DOMAIN dbChapters : dbChapters[i].novelId = novelId}

C20_ImportReplaces ==
  /\ ipc = "done" =>
       LET imported == parsed[1].chapters
       IN  /\ Len(imported) >= 1
           /\ Cardinality(StoredOf(sDefault)) = Len(imported)
           /\ StoredOf(sDefault) \cap DOMAIN before.chapters = {}
           /\ \A k \in 1..Len(imported) :
                \E i \in StoredOf(sDefault) :
                  /\ dbChapters[i].order = k
                  /\ dbChapters[i].title = imported[k].title
                  /\ dbChapters[i].content = imported[k].doc
           /\ dbNovels[sDefault].title = parsed[1].novelTitle
  /\ (parsed # <<>> /\ parsed[1].chapters = <<>> /\ ipc # "replace") =>
       (ipc = "failed" /\ dbNovels = before.novels /\ dbChapters = before.chapters)

\* Two stored chapters were replaced by two imported ones, step by step
C20_Witness ==
  /\ ipc = "done" /\ importer = "replaceNovelWithImport"
  /\ Len(parsed[1].chapters) = 2
  /\ Cardinality({i \in DOMAIN before.chapters : before.chapters[i].novelId = sDefault}) = 2
  /\ Cardinality(StoredOf(sDefault)) = 2

\* ------------------------------------------------------------------------
\* filenameToTitle
\* ------------------------------------------------------------------------
\* The characters of s that are not whitespace, in order
Visible(s) == SelectSeq(s, LAMBDA c : c \notin WS)

\* s has no whitespace at either end, and its only whitespace is single spaces
Normalized(s) ==
  /\ s # <<>> => s[1] \notin WS /\ s[Len(s)] \notin WS
  /\ \A k \in 1..Len(s) : s[k] \in WS => s[k] = " " /\ s[k+1] \notin WS

\* The name without its final ".extension": the part before the last dot when that dot is
\* followed by at least one character, the whole name otherwise
Stem(name) ==
  IF \E k \in 1..(Len(name) - 1) : name[k] = "." /\ \A j \in (k+1)..Len(name) : name[j] # "."
  THEN SubSeq(name, 1, (CHOOSE k \in 1..(Len(name) - 1) :
                          name[k] = "." /\ \A j \in (k+1)..Len(name) : name[j] # ".") - 1)
  ELSE name

sManuscriptV2 == <<"m","y","_","m","a","n","u","s","c","r","i","p","t",".","v","2">>

\* C27: filenameToTitle(name) is never empty and is whitespace-normalized; it is
\* "Untitled Novel" when the name is missing or when nothing but whitespace remains once
\* the final ".extension" is removed, and otherwise it is made of the characters of the name
\* up to that extension ("my_manuscript.v2.docx" gives "my_manuscript.v2").
C27_TitleFromFilename ==
  Called("filenameToTitle") =>
    /\ returned[1] # <<>>
    /\ Normalized(returned[1])
    /\ IF args = <<>> \/ Visible(Stem(args)) = <<>>
       THEN returned[1] = sUntitledNovel
       ELSE /\ Visible(returned[1]) = Visible(Stem(args))
            /\ Len(returned[1]) <= Len(Stem(args))
    /\ args = fManuscript => returned[1] = sManuscriptV2

C27_Witness == Called("filenameToTitle") /\ args = fManuscript /\ returned[1] = sManuscriptV2

\* ------------------------------------------------------------------------
\* The exporters
\* ------------------------------------------------------------------------
\* node is a paragraph with some text in it
NonEmptyParagraph(node) ==
  /\ node.type = "paragraph"
  /\ "content" \in DOMAIN node
  /\ \E j \in 1..Len(node.content) :
       node.content[j].type = "text" /\ node.content[j].text # <<>>

\* The body elements emitted for the first chapter: those before the first closing element
FirstChapterBody(out) ==
  LET close == SetMin({k \in 1..Len(out) : out[k].kind = "closing"})
  IN  SelectSeq(SubSeq(out, 1, close - 1), LAMBDA e : e.kind = "body")

\* C28: for a chapter document made of k >= 1 non-empty paragraph nodes, exportDOCX and
\* exportPDF emit exactly k body paragraphs for that chapter, one per document paragraph,
\* in order.
C28_ParagraphPerNode ==
  (Called("exportDOCX") \/ Called("exportPDF")) =>
    LET nodes == args.chapters[1].content.content
        body == FirstChapterBody(returned[1])
    IN  (\A k \in 1..Len(nodes) : NonEmptyParagraph(nodes[k])) =>
          /\ Len(body) = Len(nodes)
          /\ \A k \in 1..Len(nodes) :
               body[k].text = editorToPlainText([type |-> "doc", content |-> <<nodes[k]>>])

\* ------------------------------------------------------------------------
\* The page: autosave, the chapter list, its handlers
\* ------------------------------------------------------------------------
\* No timer is pending and no handler is waiting for the database
Quiescent == writeTimer = <<>> /\ tasks = <<>>

ActiveIndex == IndexOf(ChapterIds(stateChapters), activeChapterId)

\* C21: once editing has stopped, the timers have fired and the writes are over, the content
\* stored for every chapter of the list is that chapter's content in memory.
C21_NoEditLost ==
  Quiescent =>
    \A k \in 1..Len(stateChapters) :
      /\ stateChapters[k].id \in DOMAIN dbChapters
      /\ dbChapters[stateChapters[k].id].content = stateChapters[k].content

\* The user changed the document in the editor: no handler started or ended, the same chapter
\* is active
EditorUpdated ==
  /\ editorDoc' # editorDoc
  /\ events' = events + 1
  /\ activeChapterId' = activeChapterId
  /\ Len(tasks') = Len(tasks)

\* Handler i is the write of an editor update and this step is its put
AutosavePut(i) ==
  /\ tasks[i].kind = "writeChapterDebounced"
  /\ tasks[i].pc = "put"
  /\ tasks' = RemoveAt(tasks, i)

\* C22: an editor update changes in memory the content of the active chapter and nothing
\* else of the list (ids, order, titles, the other contents), and leaves storage alone; the
\* write it schedules is for the chapter that was active and the document of the update,
\* and when that write is done the stored records of all other chapters are as before.
C22_EditIsolated ==
  [][ /\ EditorUpdated =>
           /\ ChapterIds(stateChapters') = ChapterIds(stateChapters)
           /\ \A k \in 1..Len(stateChapters) :
                /\ stateChapters'[k].title = stateChapters[k].title
                /\ stateChapters[k].id # activeChapterId =>
                     stateChapters'[k].content = stateChapters[k].content
                /\ k = ActiveIndex => stateChapters'[k].content = editorDoc'
           /\ dbChapters' = dbChapters
           /\ ActiveIndex # 0 =>
                writeTimer' = <<[id |-> activeChapterId, patch |-> [content |-> editorDoc']]>>
      /\ (writeTimer # <<>> /\ writeTimer' = <<>>) =>
           /\ tasks'[Len(tasks')].id = writeTimer[1].id
           /\ tasks'[Len(tasks')].patch = writeTimer[1].patch
      /\ \A i \in 1..Len(tasks) : AutosavePut(i) =>
           /\ stateChapters' = stateChapters
           /\ DOMAIN dbChapters' = DOMAIN dbChapters \cup {tasks[i].id}
           /\ dbChapters'[tasks[i].id].content = tasks[i].patch.content
           /\ \A j \in DOMAIN dbChapters \ {tasks[i].id} : dbChapters'[j] = dbChapters[j]
    ]_vars

\* The second of two chapters was edited and the write is done: both copies of it hold the
\* new document, both copies of the first chapter the old one
C22_Witness ==
  /\ Quiescent
  /\ Len(stateChapters) = 2
  /\ activeChapterId = stateChapters[2].id
  /\ DOMAIN dbChapters = {stateChapters[1].id, stateChapters[2].id}
  /\ stateChapters[2].content = textToDoc(tDawn)
  /\ dbChapters[stateChapters[2].id].content = textToDoc(tDawn)
  /\ stateChapters[1].content = textToDoc(tArrival)
  /\ dbChapters[stateChapters[1].id].content = textToDoc(tArrival)

\* The chapter of state.chapters that state.activeChapterId names, when there is one
ActiveShown ==
  /\ ActiveIndex # 0
  /\ editorDoc = stateChapters[ActiveIndex].content
  /\ chapterTitle = stateChapters[ActiveIndex].title

\* This step completes an open, new-chapter, delete or load handler: the handler leaves the
\* waiting ones, or a click on the list switched at once
HandlerCompletes ==
  \/ \E i \in 1..Len(tasks) :
       /\ tasks[i].kind \in {"openChapter", "btnNewChapter", "btnDeleteChapter", "importFile"}
       /\ tasks[i].pc \in {"show", "push", "afterDelete", "loadFromDB"}
       /\ Len(tasks') = Len(tasks) - 1
       /\ tasks' = RemoveAt(tasks, i)
  \/ (events' = events + 1 /\ tasks' = tasks /\ activeChapterId' # activeChapterId)

\* C23: when an open, new-chapter, delete or load action has completed and activeChapterId
\* is not null, the editor holds the document and the title field the title of the chapter
\* that activeChapterId names.
C23_ActiveIsShown ==
  [][ (HandlerCompletes /\ activeChapterId' # 0) => ActiveShown' ]_vars

\* The records of list chs in the order ids
InOrder(chs, ids) == [k \in 1..Len(ids) |-> chs[IndexOf(ChapterIds(chs), ids[k])]]

\* The place of id in ids, the last one should the list name it twice
Place(ids, id) == CHOOSE k \in 1..Len(ids) : ids[k] = id /\ \A m \in (k+1)..Len(ids) : ids[m] # id

\* A drop has re-ordered the list and is waiting for reorderChapters
DropHandled ==
  /\ Len(tasks') = Len(tasks) + 1
  /\ tasks'[Len(tasks')].kind = "drop"

\* C24: dropping chapter D on chapter T (D other than T, both in the list) gives a
\* permutation of the list in which D has the index T had and the other chapters keep their
\* relative order; when reorderChapters completes every chapter of that list is stored with
\* order index + 1 (counted from 0), so list and storage agree; a drop on itself, without an
\* id or with an id that is not in the list changes nothing.
C24_DropMoves ==
  [][ /\ DropHandled =>
           LET old == ChapterIds(stateChapters)
               new == ChapterIds(stateChapters')
               d == tasks'[Len(tasks')].draggedId
               to == IndexOf(old, tasks'[Len(tasks')].targetId)
           IN  /\ d # 0 /\ d # old[to] /\ \E k \in 1..Len(old) : old[k] = d
               /\ Len(new) = Len(old)
               /\ new[to] = d
               /\ RemoveAt(new, to) = RemoveAt(old, IndexOf(old, d))
               /\ stateChapters' = InOrder(stateChapters, new)
               /\ tasks'[Len(tasks')].ids = new
               /\ dbChapters' = dbChapters
      /\ (ChapterIds(stateChapters') # ChapterIds(stateChapters)
            /\ Len(stateChapters') = Len(stateChapters) /\ Len(tasks') >= Len(tasks)) => DropHandled
      /\ \A i \in 1..Len(tasks) :
           (tasks[i].kind = "drop" /\ Len(tasks') < Len(tasks) /\ tasks' = RemoveAt(tasks, i)) =>
             /\ DOMAIN dbChapters' = DOMAIN dbChapters
             /\ \A j \in DOMAIN dbChapters :
                  IF IndexOf(tasks[i].ids, j) # 0 /\ dbChapters[j].novelId = tasks[i].novelId
                  THEN dbChapters'[j] = [dbChapters[j] EXCEPT !.order = Place(tasks[i].ids, j)]
                  ELSE dbChapters'[j] = dbChapters[j]
             /\ UNCHANGED stateChapters
    ]_vars

\* Of three chapters the first was dropped on the third, and the new order is stored
C24_Witness ==
  /\ Quiescent
  /\ ChapterIds(stateChapters) = <<2, 3, 1>>
  /\ DOMAIN dbChapters = {1, 2, 3}
  /\ dbChapters[2].order = 1 /\ dbChapters[3].order = 2 /\ dbChapters[1].order = 3

\* A delete handler is between its database request and its end
Deleting(id) ==
  \E i \in 1..Len(tasks) : tasks[i].kind = "btnDeleteChapter" /\ tasks[i].id = id

\* No backup was imported up to and in this step: the novel has the title it started with,
\* so that every chapter missing from storage was removed by deleteChapter
NoBackupImported == dbNovels[sDefault].title = sUntitledNovel /\ dbNovels' = dbNovels

\* C29: once deleteChapter(id) has completed, no chapter with that id is in storage again,
\* whatever updateChapterMeta call for it was under way (an id handed out earlier and absent
\* from storage, with no delete of it still running, stays absent; runs that import a
\* backup, which may restore chapters, are left aside).
C29_NeverReappears ==
  [][ \A id \in 1..uuid :
        (id \notin DOMAIN dbChapters /\ ~Deleting(id) /\ NoBackupImported)
          => id \notin DOMAIN dbChapters'
    ]_vars

\* C30: whenever no handler is under way, activeChapterId is null or the id of a chapter of
\* state.chapters, and it is null only when state.chapters is empty.
C30_ActiveIsListed ==
  tasks = <<>> =>
    /\ activeChapterId # 0 => ActiveIndex # 0
    /\ activeChapterId = 0 => stateChapters = <<>>

\* ------------------------------------------------------------------------
\* Properties of the service worker
\* ------------------------------------------------------------------------
\* The query string has the parameter nosw=1 (the first nosw pair is the one that counts)
CarriesNoSw(search) ==
  \E i \in 1..Len(search) :
    /\ search[i] = [key |-> "nosw", value |-> "1"]
    /\ \A j \in 1..(i - 1) : search[j].key # "nosw"

\* Every key of every cache
StoredKeys == UNION {DOMAIN cacheStorage[c].entries : c \in 1..Len(cacheStorage)}

\* C26: when the page URL carries nosw=1, setupSW never reaches register and ends with no
\* registration left; and a request whose URL carries nosw=1 is never given to respondWith,
\* never handed to cache.put, never a key of a cache, and answered by nobody but the browser
C26_NoSwBypass ==
  /\ \A i \in 1..Len(fetching) : ~CarriesNoSw(fetching[i].req.search)
  /\ \A i \in 1..Len(pendingPuts) : ~CarriesNoSw(pendingPuts[i].req.search)
  /\ \A k \in StoredKeys : ~CarriesNoSw(k.search)
  /\ \A i \in 1..Len(lastResponse) :
       CarriesNoSw(lastResponse[i].req.search) => lastResponse[i].source = "browser"
  /\ CarriesNoSw(pageSearch) =>
       /\ setupPc # "register"
       /\ setupPc = "done" => registrations = {}

\* setupSW of a page with ?tab=1&nosw=1 has unregistered two registrations, and the active
\* worker has let a nosw=1 request through
C26_Witness ==
  /\ CarriesNoSw(pageSearch) /\ Len(pageSearch) = 2
  /\ setupPc = "done"
  /\ Cardinality(regs) = 2
  /\ lastResponse # <<>>
  /\ lastResponse[1].source = "browser"

\* The request has a match in the caches
HasCacheMatch(req) == req.method = "GET" /\ [url |-> req.url, search |-> req.search] \in StoredKeys

\* The entries of the worker's own cache: <<>> when it does not exist
OwnEntries(cs) ==
  IF \E c \in 1..Len(cs) : cs[c].name = CACHE_NAME
  THEN (CHOOSE c \in {cs[k] : k \in 1..Len(cs)} : c.name = CACHE_NAME).entries
  ELSE <<>>

\* C25: a fetch event whose request has a cache match never goes on to the network, and
\* when it completes its answer is the cached response, whether online or not; a cache.put
\* that completes has stored the fetched response under the request; and no entry of the
\* worker's cache is ever removed, so the match is there for every later identical request
C25_CacheFirst ==
  [][ /\ \A i \in 1..Len(fetching) :
           (fetching[i].pc = "match" /\ HasCacheMatch(fetching[i].req)) =>
             /\ fetching' # [fetching EXCEPT ![i].pc = "fetch"]
             /\ fetching' = RemoveAt(fetching, i) =>
                  /\ lastResponse' # <<>>
                  /\ lastResponse'[1].req = fetching[i].req
                  /\ lastResponse'[1].source = "cache"
                  /\ lastResponse'[1].response # <<>>
                  /\ \E c \in 1..Len(cacheStorage) :
                       /\ [url |-> fetching[i].req.url, search |-> fetching[i].req.search]
                            \in DOMAIN cacheStorage[c].entries
                       /\ lastResponse'[1].response[1] =
                            cacheStorage[c].entries[[url |-> fetching[i].req.url,
                                                     search |-> fetching[i].req.search]]
      /\ \A i \in 1..Len(pendingPuts) :
           (pendingPuts' = RemoveAt(pendingPuts, i) /\ pendingPuts[i].response.status # 206) =>
             /\ [url |-> pendingPuts[i].req.url, search |-> pendingPuts[i].req.search]
                  \in DOMAIN OwnEntries(cacheStorage')
             /\ OwnEntries(cacheStorage')[[url |-> pendingPuts[i].req.url,
                                           search |-> pendingPuts[i].req.search]]
                  = pendingPuts[i].response
      /\ DOMAIN OwnEntries(cacheStorage) \subseteq DOMAIN OwnEntries(cacheStorage')
    ]_vars

\* A module of the CDN, cached when it was first fetched, is answered from the cache while
\* the network is down
C25_Witness ==
  /\ ~online
  /\ lastResponse # <<>>
  /\ lastResponse[1].source = "cache"
  /\ lastResponse[1].req.url = sEsmModule

\* ------------------------------------------------------------------------
\* Properties of the stored order
\* ------------------------------------------------------------------------
\* C31: within one novel no two stored chapters have the same order.
C31_OrdersDistinct ==
  \A i \in DOMAIN dbChapters, j \in DOMAIN dbChapters :
    (i # j /\ dbChapters[i].novelId = dbChapters[j].novelId) =>
      dbChapters[i].order # dbChapters[j].order

\* ------------------------------------------------------------------------
\* Conservation of the paragraphs by splitFromParagraphs
\* ------------------------------------------------------------------------
\* A text without its white space, and the texts of paragraphs ps one after the other
Squash(t) == SelectSeq(t, LAMBDA c : c \notin WS)
SquashAll(ps) == Squash(Join(Texts(ps), <<" ">>))

\* Chapter c is made of the paragraphs ts (its title, after a label of the code's own when
\* the first of them is not the heading) and bs (its body), and of nothing else
ChapterMadeOf(c, ts, bs) ==
  /\ \/ ts # <<>> /\ c.title = WithSubtitles(clean(ts[1].text), Texts(Tail(ts)))
     \/ \E k \in 1..MaxParas : c.title = WithSubtitles(ChapterLabel(k), Texts(ts))
  /\ Squash(editorToPlainText(c.doc)) = SquashAll(bs)

\* The chapters from the k-th on are made of the paragraphs from the pos-th on, each
\* paragraph in one chapter, as title or as body
RECURSIVE AccountedFrom(_, _, _, _)
AccountedFrom(chs, k, ps, pos) ==
  IF k > Len(chs) THEN pos = Len(ps) + 1
  ELSE \E len \in 0..(Len(ps) - pos + 1) : \E tl \in 0..len :
         /\ ChapterMadeOf(chs[k], SubSeq(ps, pos, pos + tl - 1), SubSeq(ps, pos + tl, pos + len - 1))
         /\ AccountedFrom(chs, k + 1, ps, pos + len)

\* C32: every non-blank paragraph of the input is in the result exactly once: the first as
\* the novel title (the fallback title being kept otherwise), every other one in the title or
\* in the body of one chapter, in input order; and the result holds no other text.
C32_ParagraphsConserved ==
  pc = "done" =>
    LET ps == NonBlank(paragraphs)
    IN  \/ /\ Returned.novelTitle = fallbackTitle[1]
           /\ AccountedFrom(Returned.chapters, 1, ps, 1)
        \/ /\ ps # <<>>
           /\ Returned.novelTitle = clean(ps[1].text)
           /\ AccountedFrom(Returned.chapters, 1, ps, 2)

\* A title paragraph, a heading and a body paragraph, each found where it belongs
C32_Witness ==
  /\ pc = "done"
  /\ Len(NonBlank(paragraphs)) = 3
  /\ Returned.novelTitle = tMyNovel
  /\ Len(Returned.chapters) = 1
  /\ Returned.chapters[1].title = tTheEnd
  /\ editorToPlainText(Returned.chapters[1].doc) = tDawn

\* ------------------------------------------------------------------------
\* Properties of the storage calls
\* ------------------------------------------------------------------------
\* The last call was op
LastCall(op) == storageCall # <<>> /\ storageCall[1].op = op

\* The chapters of novel novelId in the store chs, by id
ChaptersOf(chs, novelId) == {i \in DOMAIN chs : chs[i].novelId = novelId}

\* A payload that importBackup has to reject
BadPayload(payload) ==
  IF payload.schemaVersion # 1 THEN TRUE
  ELSE IF payload.novel = <<>> THEN TRUE
  ELSE IF payload.novel[1].id = "" THEN TRUE
  ELSE payload.chapters = <<>>

\* C33: importBackup throws on a payload of another schema version, without a novel id or
\* without a chapter array, and leaves the stores as they were; otherwise the chapters
\* stored for payload.novel.id are exactly the payload's, under that novel id, and the
\* chapters of the other novels are as before.
C33_ImportReplaces ==
  LastCall("importBackup") =>
    LET payload == storageCall[1].arg[1]
        was == storageCall[1].before
    IN  IF BadPayload(payload)
        THEN /\ storageCall[1].returned = "throw"
             /\ Database = was
        ELSE LET novelId == payload.novel[1].id
                 cs == payload.chapters[1]
             IN  /\ storageCall[1].returned = "true"
                 /\ ChaptersOf(dbChapters, novelId) = {cs[k].id : k \in 1..Len(cs)}
                 /\ \A k \in 1..Len(cs) :
                      dbChapters[cs[k].id] = [novelId |-> novelId, order |-> cs[k].order,
                                              title |-> cs[k].title, content |-> cs[k].content]
                 /\ \A i \in DOMAIN was.chapters :
                      was.chapters[i].novelId # novelId =>
                        /\ i \in DOMAIN dbChapters
                        /\ dbChapters[i] = was.chapters[i]

\* The last call imported the backup last exported, of a novel that was stored, into the
\* database the backup was taken from or into an empty one
RoundTrip ==
  /\ LastCall("importBackup")
  /\ backupFile # <<>>
  /\ storageCall[1].arg[1] = backupFile[1].payload
  /\ backupFile[1].novelId \in DOMAIN backupFile[1].taken.novels
  /\ \/ storageCall[1].before = backupFile[1].taken
     \/ storageCall[1].before = [novels |-> <<>>, chapters |-> <<>>]

\* C34: importing what exportBackup returned for a stored novel, into the same or into an
\* emptied database, gives the novel record and the chapters (ids, order, titles, content)
\* the novel had when the backup was taken.
C34_BackupRoundTrip ==
  RoundTrip =>
    LET novelId == backupFile[1].novelId
        taken == backupFile[1].taken
    IN  /\ novelId \in DOMAIN dbNovels
        /\ dbNovels[novelId] = taken.novels[novelId]
        /\ ChaptersOf(dbChapters, novelId) = ChaptersOf(taken.chapters, novelId)
        /\ \A i \in ChaptersOf(taken.chapters, novelId) : dbChapters[i] = taken.chapters[i]

\* A novel of two chapters is back after export, reset and import
C34_Witness ==
  /\ RoundTrip
  /\ storageCall[1].before = [novels |-> <<>>, chapters |-> <<>>]
  /\ backupFile[1].novelId = sDefault
  /\ Cardinality(ChaptersOf(dbChapters, sDefault)) = 2

\* C35: ensureDefaultNovel returns the novel 'default' and writes nothing when it is stored,
\* whether it has chapters or not; when it is not stored the call stores it, titled
\* "Untitled Novel", with one new chapter of order 1, and nothing else changes.
C35_EnsureIdempotent ==
  LastCall("ensureDefaultNovel") =>
    LET was == storageCall[1].before
    IN  IF sDefault \in DOMAIN was.novels
        THEN /\ Database = was
             /\ storageCall[1].returned = <<[id |-> sDefault, title |-> was.novels[sDefault].title]>>
        ELSE /\ DOMAIN dbNovels = DOMAIN was.novels \cup {sDefault}
             /\ dbNovels[sDefault].title = sUntitledNovel
             /\ \A n \in DOMAIN was.novels : dbNovels[n] = was.novels[n]
             /\ Cardinality(DOMAIN dbChapters \ DOMAIN was.chapters) = 1
             /\ \A i \in DOMAIN dbChapters \ DOMAIN was.chapters :
                  dbChapters[i].novelId = sDefault /\ dbChapters[i].order = 1
             /\ \A i \in DOMAIN was.chapters :
                  i \in DOMAIN dbChapters /\ dbChapters[i] = was.chapters[i]
             /\ storageCall[1].returned = <<[id |-> sDefault, title |-> sUntitledNovel]>>

\* Three calls on a new database: the first has stored the novel and the seed chapter, the
\* third has changed nothing
C35_Witness ==
  /\ LastCall("ensureDefaultNovel")
  /\ storageCalls = 3
  /\ uuid = 1
  /\ DOMAIN dbChapters = {1}
  /\ dbChapters[1] = SeedChapter
  /\ storageCall[1].before = Database

\* ------------------------------------------------------------------------
\* Properties of the service worker's cache writes, fallback and activation
\* ------------------------------------------------------------------------
\* The requests of the page with method m
RequestsBy(m) == {req \in Requests : req.method = m}

\* C36: only responses to GET requests are handed to cache.put, and every entry of the
\* worker's cache is a precached core asset or the response to a GET request under that
\* request's key; nothing is stored for a URL that is only requested with another method.
C36_OnlyGetCached ==
  /\ \A i \in 1..Len(pendingPuts) : pendingPuts[i].req.method = "GET"
  /\ \A k \in DOMAIN OwnEntries(cacheStorage) :
       \/ k \in DOMAIN Precache /\ OwnEntries(cacheStorage)[k] = Precache[k]
       \/ \E req \in RequestsBy("GET"), status \in Statuses :
            /\ RequestKey(req) = k
            /\ OwnEntries(cacheStorage)[k] = Response(req.url, status)
  /\ \A k \in DOMAIN OwnEntries(cacheStorage) :
       \A req \in RequestsBy("PUT") : k.url = req.url => \E get \in RequestsBy("GET") : get.url = k.url

\* A PUT has been answered from the network, no cache.put is pending, and the cache holds
\* the runtime entry of an earlier GET
C36_Witness ==
  /\ lastResponse # <<>>
  /\ lastResponse[1].req.method = "PUT"
  /\ lastResponse[1].source = "network"
  /\ pendingPuts = <<>>
  /\ \E k \in DOMAIN OwnEntries(cacheStorage) : k \notin DOMAIN Precache

\* The key ./index.html is matched with
ShellKey == [url |-> sIndexHtml, search |-> <<>>]

\* The handler i fails in this step: it was waiting for fetch, the network is unreachable,
\* and it is gone
FetchFails(i) ==
  /\ fetching[i].pc = "fetch"
  /\ ~online
  /\ Len(fetching') = Len(fetching) - 1
  /\ lastResponse' # <<>>
  /\ lastResponse'[1].req = fetching[i].req
  /\ lastResponse'[1].source # "cache"

\* C37: when a request without cache match fails on the network, a navigation is answered
\* with the cached ./index.html if a cache has it; in every other case the answer is the
\* fetch error, no response is made up, and no cache is written.
C37_OfflineFallback ==
  [][\A i \in 1..Len(fetching) :
       FetchFails(i) =>
         /\ IF fetching[i].req.mode = "navigate" /\ ShellKey \in StoredKeys
            THEN /\ lastResponse'[1].source = "shell"
                 /\ \E c \in 1..Len(cacheStorage) :
                      /\ ShellKey \in DOMAIN cacheStorage[c].entries
                      /\ lastResponse'[1].response = <<cacheStorage[c].entries[ShellKey]>>
            ELSE /\ lastResponse'[1].source = "error"
                 /\ lastResponse'[1].response = <<>>
         /\ cacheStorage' = cacheStorage
         /\ pendingPuts' = pendingPuts]_vars

\* An offline navigation to a URL that is not cached has been answered with the shell
C37_Witness ==
  /\ lastResponse # <<>>
  /\ lastResponse[1].source = "shell"
  /\ lastResponse[1].req.mode = "navigate"
  /\ lastResponse[1].req.search # <<>>
  /\ lastResponse[1].response = <<Response(sIndexHtml, 200)>>

\* The names of the caches cs
CacheNames(cs) == {cs[c].name : c \in 1..Len(cs)}

\* C38: when the activate listener completes, no cache that existed when it started is left
\* under a name other than CACHE_NAME, and the cache CACHE_NAME is as it was.
C38_ActivateCleans ==
  [][swState = "activating" /\ swState' = "activated" =>
       /\ \A k \in 1..Len(keys) : keys[k] # CACHE_NAME => keys[k] \notin CacheNames(cacheStorage')
       /\ CACHE_NAME \in CacheNames(cacheStorage) <=> CACHE_NAME \in CacheNames(cacheStorage')
       /\ OwnEntries(cacheStorage') = OwnEntries(cacheStorage)]_vars

\* The worker is active, the cache of the earlier version that caches.keys() reported is
\* gone and the precache is there
C38_Witness ==
  /\ swState = "activated"
  /\ \E k \in 1..Len(keys) : keys[k] = sOldCache
  /\ cacheStorage = <<CoreCache>>

====
